---- MODULE Spec2Model ----
(***************************************************************************)
(* Model of src/src/tsequence.c (MobilityDB temporal sequences).           *)
(*                                                                         *)
(* Base values.  A float8 base value is modelled as an exact rational      *)
(* <<n, d>> (d > 0, lowest terms).  The unit of the model's values is      *)
(* 1 / UnitsPerOne, so that the value tolerance EPSILON of the program is  *)
(* EPSILON model units.  The double rounding error (2^-53 relative) is     *)
(* not modelled; every comparison the code makes is evaluated exactly.     *)
(* Timestamps (TimestampTz, int64 microseconds) are integers.              *)
(***************************************************************************)
EXTENDS Integers, Sequences, FiniteSets, TLC

VARIABLES seq, res, err, call

vars == <<seq, res, err, call>>

(***************************************************************************)
(* Bounds of the model                                                     *)
(***************************************************************************)
MaxT == 2
MaxVal == 2
MaxCount == 3
\* the runs given to the normalizer alone: timestamps 0 .. NormMaxT, at most
\* NormMaxCount instants
NormMaxT == 4
NormMaxCount == 4
\* the sequences given to the search of a segment alone: timestamps
\* 0 .. FindMaxT
FindMaxT == 6
\* the sequences given to the restrictions in time alone: timestamps
\* 0 .. TimeMaxT
TimeMaxT == 3

(***************************************************************************)
(* Program constants                                                       *)
(***************************************************************************)
EPSILON == 1
UnitsPerOne == 1000000

INT4OID == "INT4OID"
FLOAT8OID == "FLOAT8OID"
STEP == FALSE
LINEAR == TRUE

(***************************************************************************)
(* Exact rational arithmetic standing for double arithmetic                *)
(***************************************************************************)
Abs(x) == IF x < 0 THEN -x ELSE x

RECURSIVE GCD(_, _)
GCD(a, b) == IF b = 0 THEN a ELSE GCD(b, a % b)

Rat(n, d) ==
  LET s == IF d < 0 THEN -1 ELSE 1
      g == GCD(Abs(n), Abs(d))
  IN  <<(s * n) \div g, (s * d) \div g>>

IntRat(n) == <<n, 1>>
RAdd(a, b) == Rat(a[1] * b[2] + b[1] * a[2], a[2] * b[2])
RSub(a, b) == Rat(a[1] * b[2] - b[1] * a[2], a[2] * b[2])
RMul(a, b) == Rat(a[1] * b[1], a[2] * b[2])
RDiv(a, b) == Rat(a[1] * b[2], a[2] * b[1])
RLt(a, b) == a[1] * b[2] < b[1] * a[2]
RLe(a, b) == a[1] * b[2] <= b[1] * a[2]
RAbs(a) == <<Abs(a[1]), a[2]>>
RMin(a, b) == IF RLt(b, a) THEN b ELSE a
RMax(a, b) == IF RLt(a, b) THEN b ELSE a
\* (long) x for x >= 0: truncation toward zero
RTrunc(a) == IF a[1] >= 0 THEN a[1] \div a[2] ELSE -((-a[1]) \div a[2])
\* EPSILON as a dimensionless number and as a value in model units
EpsFraction == Rat(EPSILON, UnitsPerOne)
EpsValue == IntRat(EPSILON)

datum_eq(v1, v2) == v1 = v2
datum_ne(v1, v2) == v1 # v2

(***************************************************************************)
(* Instants, periods, boxes                                                *)
(***************************************************************************)
tinstant_make(v, t, valuetypid) == [value |-> v, t |-> t, valuetypid |-> valuetypid]

period_set(lower, upper, lower_inc, upper_inc) ==
  [lower |-> lower, upper |-> upper, lower_inc |-> lower_inc, upper_inc |-> upper_inc]

contains_period_timestamp_internal(p, t) ==
  /\ (p.lower < t \/ (p.lower = t /\ p.lower_inc))
  /\ (t < p.upper \/ (p.upper = t /\ p.upper_inc))

overlaps_period_period_internal(p1, p2) ==
  /\ (p1.lower < p2.upper \/ (p1.lower = p2.upper /\ p1.lower_inc /\ p2.upper_inc))
  /\ (p2.lower < p1.upper \/ (p2.lower = p1.upper /\ p2.lower_inc /\ p1.upper_inc))

\* the intersection of two overlapping periods
intersection_period_period_internal(p1, p2) ==
  LET lower == IF p1.lower > p2.lower THEN p1.lower ELSE p2.lower
      upper == IF p1.upper < p2.upper THEN p1.upper ELSE p2.upper
      lower_inc == IF p1.lower = p2.lower THEN p1.lower_inc /\ p2.lower_inc
                   ELSE IF lower = p1.lower THEN p1.lower_inc ELSE p2.lower_inc
      upper_inc == IF p1.upper = p2.upper THEN p1.upper_inc /\ p2.upper_inc
                   ELSE IF upper = p1.upper THEN p1.upper_inc ELSE p2.upper_inc
  IN  period_set(lower, upper, lower_inc, upper_inc)

RECURSIVE MinValue(_, _)
MinValue(instants, n) ==
  IF n = 1 THEN instants[1].value
  ELSE RMin(instants[n].value, MinValue(instants, n - 1))

RECURSIVE MaxValue(_, _)
MaxValue(instants, n) ==
  IF n = 1 THEN instants[1].value
  ELSE RMax(instants[n].value, MaxValue(instants, n - 1))

\* TBOX of an array of instants: value extrema and time extrema
tsequence_make_bbox(instants, count) ==
  [xmin |-> MinValue(instants, count), xmax |-> MaxValue(instants, count),
   tmin |-> instants[1].t, tmax |-> instants[count].t]

tinstant_make_bbox(inst) ==
  [xmin |-> inst.value, xmax |-> inst.value, tmin |-> inst.t, tmax |-> inst.t]

temporal_bbox_expand(box1, box2) ==
  [xmin |-> RMin(box1.xmin, box2.xmin), xmax |-> RMax(box1.xmax, box2.xmax),
   tmin |-> IF box2.tmin < box1.tmin THEN box2.tmin ELSE box1.tmin,
   tmax |-> IF box2.tmax > box1.tmax THEN box2.tmax ELSE box1.tmax]

temporal_bbox_shift(box, delta) ==
  [box EXCEPT !.tmin = @ + delta, !.tmax = @ + delta]

\* bounding box test of a restriction to a base value
temporal_bbox_restrict_value(s, v) ==
  RLe(s.bbox.xmin, v) /\ RLe(v, s.bbox.xmax)

(***************************************************************************)
(* Results of a call: a value, or the error raised by ereport(ERROR)       *)
(***************************************************************************)
NullSeq ==
  [valuetypid |-> FLOAT8OID, linear |-> FALSE, count |-> 0,
   period |-> period_set(0, 0, FALSE, FALSE), instants |-> <<>>,
   bbox |-> [xmin |-> <<0, 1>>, xmax |-> <<0, 1>>, tmin |-> 0, tmax |-> 0]]

Ok(v) == [err |-> "none", val |-> v]
Fail(e, v) == [err |-> e, val |-> v]

(***************************************************************************)
(* Segment math                                                            *)
(***************************************************************************)
\* tsequence_value_at_timestamp1 holding the start value of a step segment up
\* to and including its end timestamp
tsequence_value_at_timestamp1_step_end(inst1, inst2, linear, t) ==
  IF datum_eq(inst1.value, inst2.value) \/ inst1.t = t \/ ~linear
  THEN inst1.value
  ELSE IF inst2.t = t THEN inst2.value
  ELSE LET ratio == Rat(t - inst1.t, inst2.t - inst1.t)
       IN  RAdd(inst1.value, RMul(RSub(inst2.value, inst1.value), ratio))

\* value of the segment inst1 -> inst2 at timestamp t (inst1.t <= t <= inst2.t)
tsequence_value_at_timestamp1(inst1, inst2, linear, t) ==
  IF datum_eq(inst1.value, inst2.value) \/ inst1.t = t \/ (~linear /\ t < inst2.t)
  THEN inst1.value
  ELSE IF inst2.t = t THEN inst2.value
  ELSE LET ratio == Rat(t - inst1.t, inst2.t - inst1.t)
       IN  RAdd(inst1.value, RMul(RSub(inst2.value, inst1.value), ratio))

tsequence_at_timestamp1(inst1, inst2, linear, t) ==
  tinstant_make(tsequence_value_at_timestamp1(inst1, inst2, linear, t), t,
                inst1.valuetypid)

\* start.t + (long) (duration * fraction)
CrossingTime(inst1, inst2, fraction) ==
  inst1.t + RTrunc(RMul(IntRat(inst2.t - inst1.t), fraction))

\* crossing of a segment of a temporal float with a base value
tnumberseq_intersection_value(inst1, inst2, value) ==
  LET dvalue1 == inst1.value
      dvalue2 == inst2.value
      min == RMin(dvalue1, dvalue2)
      max == RMax(dvalue1, dvalue2)
      range == RSub(max, min)
      partial == RSub(value, min)
      fraction == IF RLt(dvalue1, dvalue2) THEN RDiv(partial, range)
                  ELSE RSub(IntRat(1), RDiv(partial, range))
  IN  IF RLt(value, min) \/ RLt(max, value) THEN [found |-> FALSE, t |-> 0]
      ELSE IF range = IntRat(0) THEN [found |-> FALSE, t |-> 0]
      ELSE IF RLt(RAbs(fraction), EpsFraction)
              \/ RLt(RAbs(RSub(fraction, IntRat(1))), EpsFraction)
           THEN [found |-> FALSE, t |-> 0]
      ELSE [found |-> TRUE, t |-> CrossingTime(inst1, inst2, fraction)]

\* the end of tlinearseq_intersection_value: the value at the crossing r
\* returned by the function of the base type
LinearIntersectionResult(inst1, inst2, value, r) ==
  IF r.found
  THEN [found |-> TRUE,
        inter |-> tsequence_value_at_timestamp1(inst1, inst2, TRUE, r.t),
        t |-> r.t]
  ELSE [found |-> FALSE, inter |-> value, t |-> 0]

tlinearseq_intersection_value(inst1, inst2, value) ==
  IF datum_eq(value, inst1.value) \/ datum_eq(value, inst2.value)
  THEN [found |-> FALSE, inter |-> value, t |-> 0]
  ELSE LinearIntersectionResult(inst1, inst2, value,
         IF inst1.valuetypid = FLOAT8OID
         THEN tnumberseq_intersection_value(inst1, inst2, value)
         ELSE [found |-> FALSE, t |-> 0])

\* crossing of two synchronized segments of temporal numbers
tnumberseq_intersection(start1, end1, start2, end2) ==
  LET x1 == start1.value
      x2 == end1.value
      x3 == start2.value
      x4 == end2.value
      denum == RAdd(RSub(RSub(x2, x1), x4), x3)
      fraction == RDiv(RSub(x3, x1), denum)
  IN  IF denum = IntRat(0) THEN [found |-> FALSE, t |-> 0]
      ELSE IF RLe(fraction, EpsFraction)
              \/ RLe(RSub(IntRat(1), EpsFraction), fraction)
           THEN [found |-> FALSE, t |-> 0]
      ELSE [found |-> TRUE, t |-> CrossingTime(start1, end1, fraction)]

\* the branches of tsequence_intersection with one step segment: r is the
\* crossing of the linear segment with the value of the step segment
StepIntersectionResult(r, value, step1) ==
  IF step1
  THEN [found |-> r.found, inter1 |-> value, inter2 |-> r.inter, t |-> r.t]
  ELSE [found |-> r.found, inter1 |-> r.inter, inter2 |-> value, t |-> r.t]

\* the branch of tsequence_intersection with two linear segments: r is the
\* crossing returned by tnumberseq_intersection
BothLinearIntersectionResult(start1, end1, start2, end2, r) ==
  IF r.found
  THEN [found |-> TRUE,
        inter1 |-> tsequence_value_at_timestamp1(start1, end1, TRUE, r.t),
        inter2 |-> tsequence_value_at_timestamp1(start2, end2, TRUE, r.t),
        t |-> r.t]
  ELSE [found |-> FALSE, inter1 |-> start1.value, inter2 |-> start2.value,
        t |-> 0]

tsequence_intersection(start1, end1, linear1, start2, end2, linear2) ==
  IF ~linear1
  THEN StepIntersectionResult(
         tlinearseq_intersection_value(start2, end2, start1.value),
         start1.value, TRUE)
  ELSE IF ~linear2
  THEN StepIntersectionResult(
         tlinearseq_intersection_value(start1, end1, start2.value),
         start2.value, FALSE)
  ELSE BothLinearIntersectionResult(start1, end1, start2, end2,
         tnumberseq_intersection(start1, end1, start2, end2))

float_collinear(x1, x2, x3, ratio) ==
  LET x == RAdd(x1, RMul(RSub(x3, x1), ratio))
  IN  RLe(RAbs(RSub(x2, x)), EpsValue)

datum_collinear(valuetypid, value1, value2, value3, t1, t2, t3) ==
  LET ratio == Rat(t2 - t1, t3 - t1)
  IN  IF valuetypid = FLOAT8OID
      THEN float_collinear(value1, value2, value3, ratio)
      ELSE FALSE

(***************************************************************************)
(* Normalization of an array of instants                                   *)
(***************************************************************************)
\* the test of the loop body of tinstantarr_normalize: inst2 is redundant
RedundantInstant(linear, inst1, inst2, inst3) ==
  \/ (~linear /\ datum_eq(inst1.value, inst2.value))
  \/ (linear /\ datum_eq(inst1.value, inst2.value)
             /\ datum_eq(inst2.value, inst3.value))
  \/ (linear /\ datum_collinear(inst1.valuetypid, inst1.value, inst2.value,
                                inst3.value, inst1.t, inst2.t, inst3.t))

\* the loop of tinstantarr_normalize from index i (1-based) on
RECURSIVE NormalizeLoop(_, _, _, _, _, _)
NormalizeLoop(instants, linear, i, inst1, inst2, result) ==
  IF i > Len(instants) THEN Append(result, inst2)
  ELSE LET inst3 == instants[i]
       IN  IF RedundantInstant(linear, inst1, inst2, inst3)
           THEN NormalizeLoop(instants, linear, i + 1, inst1, inst3, result)
           ELSE NormalizeLoop(instants, linear, i + 1, inst2, inst3,
                              Append(result, inst2))

\* precondition: Len(instants) > 1
tinstantarr_normalize(instants, linear) ==
  NormalizeLoop(instants, linear, 3, instants[1], instants[2], <<instants[1]>>)

(***************************************************************************)
(* Construction                                                            *)
(***************************************************************************)
\* ensure_valid_tinstantarr: the timestamps must be increasing
ensure_valid_tinstantarr(instants) ==
  \A i \in 1..(Len(instants) - 1) : instants[i].t < instants[i + 1].t

\* tsequence_make without the test of the bounds of an instantaneous sequence
tsequence_make_any_bounds(instants, lower_inc, upper_inc, linear, normalize) ==
  LET count == Len(instants)
      norminsts == IF normalize /\ count > 1
                   THEN tinstantarr_normalize(instants, linear)
                   ELSE instants
      newcount == Len(norminsts)
  IN  IF ~ensure_valid_tinstantarr(instants)
      THEN Fail("Timestamps for temporal value must be increasing", NullSeq)
      ELSE IF ~linear /\ count > 1 /\ ~upper_inc
              /\ datum_ne(instants[count].value, instants[count - 1].value)
      THEN Fail("Invalid end value for temporal sequence", NullSeq)
      ELSE Ok([valuetypid |-> instants[1].valuetypid,
               linear |-> linear,
               count |-> newcount,
               period |-> period_set(norminsts[1].t, norminsts[newcount].t,
                                     lower_inc, upper_inc),
               instants |-> norminsts,
               bbox |-> tsequence_make_bbox(norminsts, newcount)])

\* precondition: Len(instants) > 0
tsequence_make(instants, lower_inc, upper_inc, linear, normalize) ==
  LET count == Len(instants)
      norminsts == IF normalize /\ count > 1
                   THEN tinstantarr_normalize(instants, linear)
                   ELSE instants
      newcount == Len(norminsts)
  IN  IF ~ensure_valid_tinstantarr(instants)
      THEN Fail("Timestamps for temporal value must be increasing", NullSeq)
      ELSE IF count = 1 /\ (~lower_inc \/ ~upper_inc)
      THEN Fail("Instant sequence must have inclusive bounds", NullSeq)
      ELSE IF ~linear /\ count > 1 /\ ~upper_inc
              /\ datum_ne(instants[count].value, instants[count - 1].value)
      THEN Fail("Invalid end value for temporal sequence", NullSeq)
      ELSE Ok([valuetypid |-> instants[1].valuetypid,
               linear |-> linear,
               count |-> newcount,
               period |-> period_set(norminsts[1].t, norminsts[newcount].t,
                                     lower_inc, upper_inc),
               instants |-> norminsts,
               bbox |-> tsequence_make_bbox(norminsts, newcount)])

tsequence_copy(s) == s

tsequence_inst_n(s, index) == s.instants[index + 1]


\* concatenation of seq1 and seq2, as called by tsequencearr_normalize
tsequence_join(seq1, seq2, removelast, removefirst) ==
  LET count1 == IF removelast THEN seq1.count - 1 ELSE seq1.count
      start2 == IF removefirst THEN 1 ELSE 0
      count == count1 + (seq2.count - start2)
  IN  [valuetypid |-> seq1.valuetypid,
       linear |-> seq1.linear,
       count |-> count,
       period |-> period_set(seq1.period.lower, seq2.period.upper,
                             seq1.period.lower_inc, seq2.period.upper_inc),
       instants |-> SubSeq(seq1.instants, 1, count1)
                    \o SubSeq(seq2.instants, start2 + 1, seq2.count),
       bbox |-> temporal_bbox_expand(seq1.bbox, seq2.bbox)]

AppendReplaces_any_collinear(linear, valuetypid, inst1, inst2, inst) ==
  \/ (~linear /\ datum_eq(inst1.value, inst2.value))
  \/ (datum_eq(inst1.value, inst2.value) /\ datum_eq(inst2.value, inst.value))
  \/ datum_collinear(valuetypid, inst1.value, inst2.value, inst.value,
                     inst1.t, inst2.t, inst.t)

\* the test of tsequence_append_tinstant: inst replaces the last instant
AppendReplaces(linear, valuetypid, inst1, inst2, inst) ==
  \/ (~linear /\ datum_eq(inst1.value, inst2.value))
  \/ (datum_eq(inst1.value, inst2.value) /\ datum_eq(inst2.value, inst.value))
  \/ (linear /\ datum_collinear(valuetypid, inst1.value, inst2.value, inst.value,
                                inst1.t, inst2.t, inst.t))

tsequence_append_tinstant(s, inst) ==
  LET last == tsequence_inst_n(s, s.count - 1)
      replace == /\ s.count > 1
                 /\ AppendReplaces(s.linear, s.valuetypid,
                                   tsequence_inst_n(s, s.count - 2),
                                   tsequence_inst_n(s, s.count - 1), inst)
      newcount == IF replace THEN s.count ELSE s.count + 1
  IN  IF ~(last.t < inst.t)
      THEN Fail("Timestamps for temporal value must be increasing", NullSeq)
      ELSE Ok([valuetypid |-> s.valuetypid,
               linear |-> s.linear,
               count |-> newcount,
               period |-> period_set(s.period.lower, inst.t,
                                     s.period.lower_inc, TRUE),
               instants |-> Append(SubSeq(s.instants, 1, newcount - 1), inst),
               bbox |-> temporal_bbox_expand(s.bbox, tinstant_make_bbox(inst))])

tsequence_shift(s, interval) ==
  [s EXCEPT !.instants = [i \in 1..s.count |->
                            [s.instants[i] EXCEPT !.t = @ + interval]],
            !.period = [@ EXCEPT !.lower = @ + interval, !.upper = @ + interval],
            !.bbox = temporal_bbox_shift(@, interval)]

(***************************************************************************)
(* Search and evaluation                                                   *)
(***************************************************************************)
RECURSIVE FindLoop(_, _, _, _)
FindLoop_first_lower(s, t, first, last) ==
  IF first > last THEN -1
  ELSE LET middle == (first + last) \div 2
           inst1 == tsequence_inst_n(s, middle)
           inst2 == tsequence_inst_n(s, middle + 1)
           upper_inc == IF middle = s.count - 2 THEN s.period.upper_inc ELSE FALSE
       IN  IF \/ (inst1.t < t /\ t < inst2.t)
              \/ (s.period.lower_inc /\ inst1.t = t)
              \/ (upper_inc /\ inst2.t = t)
           THEN middle
           ELSE IF t <= inst1.t
           THEN FindLoop(s, t, first, middle - 1)
           ELSE FindLoop(s, t, middle + 1, last)

FindLoop(s, t, first, last) ==
  IF first > last THEN -1
  ELSE LET middle == (first + last) \div 2
           inst1 == tsequence_inst_n(s, middle)
           inst2 == tsequence_inst_n(s, middle + 1)
           lower_inc == IF middle = 0 THEN s.period.lower_inc ELSE TRUE
           upper_inc == IF middle = s.count - 2 THEN s.period.upper_inc ELSE FALSE
       IN  IF \/ (inst1.t < t /\ t < inst2.t)
              \/ (lower_inc /\ inst1.t = t)
              \/ (upper_inc /\ inst2.t = t)
           THEN middle
           ELSE IF t <= inst1.t
           THEN FindLoop(s, t, first, middle - 1)
           ELSE FindLoop(s, t, middle + 1, last)

tsequence_find_timestamp(s, t) == FindLoop(s, t, 0, s.count - 2)

\* found = FALSE: the timestamp is not in the period; err: the read of
\* instant -1 after a failed search
tsequence_value_at_timestamp(s, t) ==
  IF ~contains_period_timestamp_internal(s.period, t)
  THEN [err |-> "none", found |-> FALSE, value |-> IntRat(0)]
  ELSE IF s.count = 1
  THEN [err |-> "none", found |-> TRUE, value |-> tsequence_inst_n(s, 0).value]
  ELSE LET n == tsequence_find_timestamp(s, t)
       IN  IF n < 0
           THEN [err |-> "read of instant -1", found |-> FALSE, value |-> IntRat(0)]
           ELSE [err |-> "none", found |-> TRUE,
                 value |-> tsequence_value_at_timestamp1(tsequence_inst_n(s, n),
                              tsequence_inst_n(s, n + 1), s.linear, t)]



\* found = FALSE: the NULL result; err: the read of instant -1 after a failed
\* search
tsequence_at_timestamp(s, t) ==
  IF ~contains_period_timestamp_internal(s.period, t)
  THEN [err |-> "none", found |-> FALSE,
        inst |-> tinstant_make(IntRat(0), t, s.valuetypid)]
  ELSE IF s.count = 1
  THEN [err |-> "none", found |-> TRUE, inst |-> tsequence_inst_n(s, 0)]
  ELSE LET n == tsequence_find_timestamp(s, t)
       IN  IF n < 0
           THEN [err |-> "read of instant -1", found |-> FALSE,
                 inst |-> tinstant_make(IntRat(0), t, s.valuetypid)]
           ELSE [err |-> "none", found |-> TRUE,
                 inst |-> tsequence_at_timestamp1(tsequence_inst_n(s, n),
                            tsequence_inst_n(s, n + 1), s.linear, t)]

(***************************************************************************)
(* Restriction to a base value                                             *)
(***************************************************************************)
\* result of a step that may produce a sequence: err, some, val
NoPiece == [err |-> "none", some |-> FALSE, val |-> NullSeq]
Piece(m) == [err |-> m.err, some |-> m.err = "none", val |-> m.val]

\* the arguments of a call of tsequence_make that a restriction prepares, or
\* none when it makes no sequence
NoSeqArgs ==
  [some |-> FALSE, instants |-> <<>>, lower_inc |-> TRUE, upper_inc |-> TRUE]
SeqArgs(instants, lower_inc, upper_inc) ==
  [some |-> TRUE, instants |-> instants, lower_inc |-> lower_inc,
   upper_inc |-> upper_inc]

\* the calls of tsequence_make for the arguments as, in order
MakeEach(as, linear) ==
  [i \in 1..Len(as) |-> tsequence_make(as[i].instants, as[i].lower_inc,
                                       as[i].upper_inc, linear, FALSE)]

\* the general case of tsequence_at_value1: r is the crossing of the segment
\* with the value
AtValue1Crossing(r, valuetypid) ==
  IF ~r.found THEN NoSeqArgs
  ELSE SeqArgs(<<tinstant_make(r.inter, r.t, valuetypid)>>, TRUE, TRUE)

\* the sequence tsequence_at_value1 makes, as arguments of tsequence_make
AtValue1Args(inst1, inst2, linear, lower_inc, upper_inc, value) ==
  LET value1 == inst1.value
      value2 == inst2.value
  IN  IF datum_eq(value1, value2)
      THEN IF datum_ne(value1, value) THEN NoSeqArgs
           ELSE SeqArgs(<<inst1, inst2>>, lower_inc, upper_inc)
      ELSE IF ~linear
      THEN IF datum_eq(value1, value)
           THEN SeqArgs(<<inst1, tinstant_make(value1, inst2.t, inst1.valuetypid)>>,
                        lower_inc, FALSE)
           ELSE IF upper_inc /\ datum_eq(value, value2)
           THEN SeqArgs(<<inst2>>, TRUE, TRUE)
           ELSE NoSeqArgs
      ELSE IF datum_eq(value1, value)
      THEN IF ~lower_inc THEN NoSeqArgs
           ELSE SeqArgs(<<inst1>>, TRUE, TRUE)
      ELSE IF datum_eq(value2, value)
      THEN IF ~upper_inc THEN NoSeqArgs
           ELSE SeqArgs(<<inst2>>, TRUE, TRUE)
      ELSE AtValue1Crossing(tlinearseq_intersection_value(inst1, inst2, value),
                            inst1.valuetypid)

\* the call of tsequence_make that ends tsequence_at_value1
MakePiece(a, linear) ==
  IF ~a.some THEN NoPiece
  ELSE Piece(tsequence_make(a.instants, a.lower_inc, a.upper_inc, linear, FALSE))

tsequence_at_value1(inst1, inst2, linear, lower_inc, upper_inc, value) ==
  MakePiece(AtValue1Args(inst1, inst2, linear, lower_inc, upper_inc, value),
            linear)

\* the loop of tsequence_at_value over the segments i = 1 .. count - 1;
\* AtValueNext is the end of its body, seq1 the result of tsequence_at_value1
RECURSIVE AtValueLoop(_, _, _, _, _)
AtValueNext(s, value, i, result, seq1) ==
  IF seq1.err # "none" THEN Fail(seq1.err, <<>>)
  ELSE AtValueLoop(s, value, i + 1, TRUE,
                   IF seq1.some THEN Append(result, seq1.val) ELSE result)

AtValueLoop(s, value, i, lower_inc, result) ==
  IF i > s.count - 1 THEN Ok(result)
  ELSE AtValueNext(s, value, i, result,
         tsequence_at_value1(tsequence_inst_n(s, i - 1), tsequence_inst_n(s, i),
           s.linear, lower_inc,
           IF i = s.count - 1 THEN s.period.upper_inc ELSE FALSE, value))

tsequence_at_value(s, value) ==
  IF s.count = 1
  THEN IF datum_ne(tsequence_inst_n(s, 0).value, value) THEN Ok(<<>>)
       ELSE Ok(<<tsequence_copy(s)>>)
  ELSE IF ~temporal_bbox_restrict_value(s, value) THEN Ok(<<>>)
  ELSE AtValueLoop(s, value, 1, s.period.lower_inc, <<>>)

\* list of the sequences made by successive tsequence_make calls; the first
\* error raised ends the call
RECURSIVE MakeAll(_)
MakeAll(ms) ==
  IF ms = <<>> THEN Ok(<<>>)
  ELSE IF Head(ms).err # "none" THEN Fail(Head(ms).err, <<>>)
  ELSE LET rest == MakeAll(Tail(ms))
       IN  IF rest.err # "none" THEN rest
           ELSE Ok(<<Head(ms).val>> \o rest.val)

\* the general case of tlinearseq_minus_value1: r is the crossing of the
\* segment with the value
MinusValue1Crossing(r, inst1, inst2, lower_inc, upper_inc) ==
  LET inst == tinstant_make(r.inter, r.t, inst1.valuetypid)
  IN  IF ~r.found
      THEN <<SeqArgs(<<inst1, inst2>>, lower_inc, upper_inc)>>
      ELSE <<SeqArgs(<<inst1, inst>>, lower_inc, FALSE),
             SeqArgs(<<inst, inst2>>, FALSE, upper_inc)>>

\* the sequences tlinearseq_minus_value1 makes, as arguments of tsequence_make
MinusValue1Args(inst1, inst2, lower_inc, upper_inc, value) ==
  LET value1 == inst1.value
      value2 == inst2.value
  IN  IF datum_eq(value1, value2)
      THEN IF datum_eq(value1, value) THEN <<>>
           ELSE <<SeqArgs(<<inst1, inst2>>, lower_inc, upper_inc)>>
      ELSE IF datum_eq(value1, value)
      THEN <<SeqArgs(<<inst1, inst2>>, FALSE, upper_inc)>>
      ELSE IF datum_eq(value2, value)
      THEN <<SeqArgs(<<inst1, inst2>>, lower_inc, FALSE)>>
      ELSE MinusValue1Crossing(
             tlinearseq_intersection_value(inst1, inst2, value),
             inst1, inst2, lower_inc, upper_inc)

tlinearseq_minus_value1(inst1, inst2, lower_inc, upper_inc, value) ==
  MakeAll(MakeEach(MinusValue1Args(inst1, inst2, lower_inc, upper_inc, value),
                   LINEAR))

\* the loop of the step branch of tsequence_minus_value over i = 0 .. count - 1;
\* instants is the buffer instants[0 .. j - 1], m the result of the call of
\* tsequence_make that closes a sequence
RECURSIVE MinusStepLoop(_, _, _, _, _, _)
MinusStepLast(m, result) ==
  IF m.err # "none" THEN Fail(m.err, <<>>) ELSE Ok(Append(result, m.val))

MinusStepNext(s, value, i, result, m) ==
  IF m.err # "none" THEN Fail(m.err, <<>>)
  ELSE MinusStepLoop(s, value, i + 1, <<>>, TRUE, Append(result, m.val))

MinusStepLoop(s, value, i, instants, lower_inc, result) ==
  IF i > s.count - 1
  THEN IF Len(instants) > 0
       THEN MinusStepLast(tsequence_make(instants, lower_inc,
                                         s.period.upper_inc, STEP, FALSE), result)
       ELSE Ok(result)
  ELSE LET inst == tsequence_inst_n(s, i)
       IN  IF datum_eq(inst.value, value)
           THEN IF Len(instants) > 0
                THEN MinusStepNext(s, value, i, result,
                       tsequence_make(
                         Append(instants,
                                tinstant_make(instants[Len(instants)].value,
                                              inst.t, s.valuetypid)),
                         lower_inc, FALSE, STEP, FALSE))
                ELSE MinusStepLoop(s, value, i + 1, <<>>, TRUE, result)
           ELSE MinusStepLoop(s, value, i + 1, Append(instants, inst),
                              lower_inc, result)

\* the loop of the linear branch of tsequence_minus_value over i = 1 .. count - 1;
\* r is the result of tlinearseq_minus_value1 on the segment
RECURSIVE MinusLinearLoop(_, _, _, _, _)
MinusLinearNext(s, value, i, result, r) ==
  IF r.err # "none" THEN r
  ELSE MinusLinearLoop(s, value, i + 1, TRUE, result \o r.val)

MinusLinearLoop(s, value, i, lower_inc, result) ==
  IF i > s.count - 1 THEN Ok(result)
  ELSE MinusLinearNext(s, value, i, result,
         tlinearseq_minus_value1(tsequence_inst_n(s, i - 1),
           tsequence_inst_n(s, i), lower_inc,
           IF i = s.count - 1 THEN s.period.upper_inc ELSE FALSE, value))

tsequence_minus_value(s, value) ==
  IF s.count = 1
  THEN IF datum_eq(tsequence_inst_n(s, 0).value, value) THEN Ok(<<>>)
       ELSE Ok(<<tsequence_copy(s)>>)
  ELSE IF ~temporal_bbox_restrict_value(s, value) THEN Ok(<<tsequence_copy(s)>>)
  ELSE IF ~s.linear
  THEN MinusStepLoop(s, value, 0, <<>>, s.period.lower_inc, <<>>)
  ELSE MinusLinearLoop(s, value, 1, s.period.lower_inc, <<>>)

(***************************************************************************)
(* Restriction to a timestamp                                              *)
(***************************************************************************)
\* MinusTimestamp1Args giving the second sequence the lower bound of s
MinusTimestamp1_keep_lower(s, t, n) ==
  LET inst1 == tsequence_inst_n(s, n)
      inst2 == tsequence_inst_n(s, n + 1)
      head == SubSeq(s.instants, 1, n)
      first == IF ~(n # 0 \/ tsequence_inst_n(s, 0).t < t) THEN <<>>
               ELSE IF inst1.t = t
               THEN IF s.linear
                    THEN <<SeqArgs(Append(head, inst1),
                                   s.period.lower_inc, FALSE)>>
                    ELSE <<SeqArgs(Append(head,
                                     tinstant_make(head[n].value, t,
                                                   inst1.valuetypid)),
                                   s.period.lower_inc, FALSE)>>
               ELSE <<SeqArgs(head \o <<inst1,
                                IF s.linear
                                THEN tsequence_at_timestamp1(inst1, inst2, TRUE, t)
                                ELSE tinstant_make(inst1.value, t,
                                                   inst1.valuetypid)>>,
                              s.period.lower_inc, FALSE)>>
      second == IF t < inst2.t
                THEN <<SeqArgs(<<tsequence_at_timestamp1(inst1, inst2,
                                                         s.linear, t)>>
                                 \o SubSeq(s.instants, n + 2, s.count),
                               s.period.lower_inc, s.period.upper_inc)>>
                ELSE <<>>
  IN  first \o second

\* the sequences tsequence_minus_timestamp1 makes, as arguments of
\* tsequence_make; n is the segment found for t
MinusTimestamp1Args(s, t, n) ==
  LET inst1 == tsequence_inst_n(s, n)
      inst2 == tsequence_inst_n(s, n + 1)
      head == SubSeq(s.instants, 1, n)
      first == IF ~(n # 0 \/ tsequence_inst_n(s, 0).t < t) THEN <<>>
               ELSE IF inst1.t = t
               THEN IF s.linear
                    THEN <<SeqArgs(Append(head, inst1),
                                   s.period.lower_inc, FALSE)>>
                    ELSE <<SeqArgs(Append(head,
                                     tinstant_make(head[n].value, t,
                                                   inst1.valuetypid)),
                                   s.period.lower_inc, FALSE)>>
               ELSE <<SeqArgs(head \o <<inst1,
                                IF s.linear
                                THEN tsequence_at_timestamp1(inst1, inst2, TRUE, t)
                                ELSE tinstant_make(inst1.value, t,
                                                   inst1.valuetypid)>>,
                              s.period.lower_inc, FALSE)>>
      second == IF t < inst2.t
                THEN <<SeqArgs(<<tsequence_at_timestamp1(inst1, inst2,
                                                         s.linear, t)>>
                                 \o SubSeq(s.instants, n + 2, s.count),
                               FALSE, s.period.upper_inc)>>
                ELSE <<>>
  IN  first \o second

\* the general case of tsequence_minus_timestamp1; n is the segment found
MinusTimestamp1General(s, t, n) ==
  IF n < 0 THEN Fail("read of instant -1", <<>>)
  ELSE MakeAll(MakeEach(MinusTimestamp1Args(s, t, n), s.linear))

tsequence_minus_timestamp1(s, t) ==
  IF ~contains_period_timestamp_internal(s.period, t)
  THEN Ok(<<tsequence_copy(s)>>)
  ELSE IF s.count = 1 THEN Ok(<<>>)
  ELSE MinusTimestamp1General(s, t, tsequence_find_timestamp(s, t))

(***************************************************************************)
(* Restriction to a timestamp set.  A timestamp set is the sequence of its *)
(* timestamps, increasing                                                  *)
(***************************************************************************)
timestampset_bbox(ts) == period_set(ts[1], ts[Len(ts)], TRUE, TRUE)

timestampset_time_n(ts, index) == ts[index + 1]

contains_timestampset_timestamp_internal(ts, t) ==
  \E i \in 1..Len(ts) : ts[i] = t

\* the output parameter loc: the position of t in ts, or the position where
\* it would be inserted
timestampset_find_timestamp(ts, t) ==
  Cardinality({i \in 1..Len(ts) : ts[i] < t})

\* the loop of tsequence_at_timestampset over the timestamps i .. count - 1;
\* r is the result of tsequence_at_timestamp
RECURSIVE AtTimestampSetLoop(_, _, _, _)
AtTimestampSetNext(s, ts, i, instants, r) ==
  IF r.err # "none" THEN Fail(r.err, <<>>)
  ELSE AtTimestampSetLoop(s, ts, i + 1,
                          IF r.found THEN Append(instants, r.inst) ELSE instants)

AtTimestampSetLoop(s, ts, i, instants) ==
  IF i >= Len(ts) THEN Ok(instants)
  ELSE AtTimestampSetNext(s, ts, i, instants,
         tsequence_at_timestamp(s, timestampset_time_n(ts, i)))

\* the instants of the instant set returned (none: NULL)
tsequence_at_timestampset(s, ts) ==
  IF ~overlaps_period_period_internal(s.period, timestampset_bbox(ts))
  THEN Ok(<<>>)
  ELSE IF s.count = 1
  THEN IF ~contains_timestampset_timestamp_internal(ts, tsequence_inst_n(s, 0).t)
       THEN Ok(<<>>)
       ELSE Ok(<<tsequence_inst_n(s, 0)>>)
  ELSE AtTimestampSetLoop(s, ts,
         timestampset_find_timestamp(ts,
           IF s.period.lower > timestampset_bbox(ts).lower
           THEN s.period.lower ELSE timestampset_bbox(ts).lower),
         <<>>)

\* the while loop of tsequence_minus_timestampset1: i, j are the C indexes,
\* instants the buffer instants[0 .. l - 1], result the sequences made so far.
\* MinusTimestampSetCut goes on after the call m of tsequence_make that closes
\* a sequence, with first as instants[0]
RECURSIVE MinusTimestampSetLoop(_, _, _, _, _, _, _)
MinusTimestampSetCut(s, ts, i, j, first, result, m) ==
  IF m.err # "none" THEN Fail(m.err, <<>>)
  ELSE MinusTimestampSetLoop(s, ts, i, j, <<first>>, FALSE,
                             Append(result, m.val))

\* the branch inst->t > t with instants[l - 1]->t < t; closing is the instant
\* made at t
MinusTimestampSetSplit(s, ts, i, j, instants, lower_inc, result, closing) ==
  MinusTimestampSetCut(s, ts, i, j + 1, closing, result,
    tsequence_make(Append(instants, closing), lower_inc, FALSE, s.linear, FALSE))

\* the sequence after the timestamp set
MinusTimestampSetEnd(s, i, instants, result) ==
  IF i < s.count
  THEN MinusStepLast(tsequence_make(instants \o SubSeq(s.instants, i + 1, s.count),
                                    FALSE, s.period.upper_inc, s.linear, FALSE),
                     result)
  ELSE Ok(result)

MinusTimestampSetLoop(s, ts, i, j, instants, lower_inc, result) ==
  IF ~(i < s.count /\ j < Len(ts))
  THEN MinusTimestampSetEnd(s, i, instants, result)
  ELSE LET inst == tsequence_inst_n(s, i)
           t == timestampset_time_n(ts, j)
           last == instants[Len(instants)]
       IN  IF inst.t < t
           THEN MinusTimestampSetLoop(s, ts, i + 1, j, Append(instants, inst),
                                      lower_inc, result)
           ELSE IF inst.t = t
           THEN MinusTimestampSetCut(s, ts, i + 1, j + 1, inst, result,
                  tsequence_make(
                    Append(instants,
                           IF s.linear THEN inst
                           ELSE tinstant_make(last.value, t, inst.valuetypid)),
                    lower_inc, FALSE, s.linear, FALSE))
           ELSE IF last.t < t
           THEN MinusTimestampSetSplit(s, ts, i, j, instants, lower_inc, result,
                  IF s.linear THEN tsequence_at_timestamp1(last, inst, TRUE, t)
                  ELSE tinstant_make(last.value, t, inst.valuetypid))
           ELSE MinusTimestampSetLoop(s, ts, i, j + 1, instants, FALSE, result)

tsequence_minus_timestampset1(s, ts) ==
  IF ~overlaps_period_period_internal(s.period, timestampset_bbox(ts))
  THEN Ok(<<tsequence_copy(s)>>)
  ELSE IF s.count = 1
  THEN IF contains_timestampset_timestamp_internal(ts, tsequence_inst_n(s, 0).t)
       THEN Ok(<<>>)
       ELSE Ok(<<tsequence_copy(s)>>)
  ELSE IF Len(ts) = 1
  THEN tsequence_minus_timestamp1(s, timestampset_time_n(ts, 0))
  ELSE MinusTimestampSetLoop(s, ts, 1, 0, <<tsequence_inst_n(s, 0)>>,
                             s.period.lower_inc, <<>>)

(***************************************************************************)
(* Restriction to a period and to a period set.  A period set is the       *)
(* sequence of its periods, ordered and disjoint                           *)
(***************************************************************************)
\* p1 minus p2, as a period set (none: NULL)
minus_period_period_internal(p1, p2) ==
  IF ~overlaps_period_period_internal(p1, p2) THEN <<p1>>
  ELSE (IF p1.lower < p2.lower
           \/ (p1.lower = p2.lower /\ p1.lower_inc /\ ~p2.lower_inc)
        THEN <<period_set(p1.lower, p2.lower, p1.lower_inc, ~p2.lower_inc)>>
        ELSE <<>>)
       \o (IF p2.upper < p1.upper
              \/ (p1.upper = p2.upper /\ p1.upper_inc /\ ~p2.upper_inc)
           THEN <<period_set(p2.upper, p1.upper, ~p2.upper_inc, p1.upper_inc)>>
           ELSE <<>>)

periodset_per_n(ps, index) == ps[index + 1]

periodset_bbox(ps) ==
  period_set(ps[1].lower, ps[Len(ps)].upper, ps[1].lower_inc,
             ps[Len(ps)].upper_inc)

contains_periodset_timestamp_internal(ps, t) ==
  \E i \in 1..Len(ps) : contains_period_timestamp_internal(ps[i], t)

\* the output parameter loc: the position of the period that contains t, or
\* of the first period after t
periodset_find_timestamp(ps, t) ==
  Cardinality({i \in 1..Len(ps) :
                 /\ ~contains_period_timestamp_internal(ps[i], t)
                 /\ ps[i].upper <= t})

\* the value of an int read in memory that pfree has released, in a build
\* that clobbers freed memory (CLOBBER_FREED_MEMORY fills it with 0x7F)
FreedInt32 == 2139062143

\* the for loop of tsequence_at_period over i .. count - 1
RECURSIVE AtPeriodLoop(_, _, _, _, _, _)
AtPeriodLoop(s, inter, i, inst1, inst2, instants) ==
  IF i >= s.count
  THEN [inst1 |-> inst1, inst2 |-> inst2, instants |-> instants]
  ELSE IF inst1.t <= inter.upper /\ inter.upper <= inst2.t
  THEN [inst1 |-> inst1, inst2 |-> inst2, instants |-> instants]
  ELSE AtPeriodLoop(s, inter, i + 1, inst2, tsequence_inst_n(s, i),
                    IF inter.lower <= inst2.t /\ inst2.t <= inter.upper
                    THEN Append(instants, inst2) ELSE instants)

\* the end of tsequence_at_period; l is the result of the loop
AtPeriodClose(s, inter, l) ==
  tsequence_make(
    Append(l.instants,
           IF s.linear \/ inter.upper_inc
           THEN tsequence_at_timestamp1(l.inst1, l.inst2, s.linear, inter.upper)
           ELSE tinstant_make(l.instants[Len(l.instants)].value, inter.upper,
                              s.valuetypid)),
    inter.lower_inc, inter.upper_inc, s.linear, FALSE)

\* the general case; n is the result of tsequence_find_timestamp
AtPeriodGeneral(s, inter, n) ==
  IF n = -1
  THEN AtPeriodClose(s, inter,
         AtPeriodLoop(s, inter, 2, tsequence_inst_n(s, 0), tsequence_inst_n(s, 1),
           <<tsequence_at_timestamp1(tsequence_inst_n(s, 0),
               tsequence_inst_n(s, 1), s.linear, inter.lower)>>))
  ELSE AtPeriodClose(s, inter,
         AtPeriodLoop(s, inter, n + 2, tsequence_inst_n(s, n),
           tsequence_inst_n(s, n + 1),
           <<tsequence_at_timestamp1(tsequence_inst_n(s, n),
               tsequence_inst_n(s, n + 1), s.linear, inter.lower)>>))

\* the case of an instantaneous intersection; a is the instant of s there
AtPeriodInstant(s, a) ==
  IF ~(a.found /\ a.err = "none") THEN Fail("read of a NULL instant", NullSeq)
  ELSE tsequence_make(<<a.inst>>, TRUE, TRUE, s.linear, FALSE)

AtPeriodInter(s, inter) ==
  IF inter.lower = inter.upper
  THEN AtPeriodInstant(s, tsequence_at_timestamp(s, inter.lower))
  ELSE AtPeriodGeneral(s, inter, tsequence_find_timestamp(s, inter.lower))

tsequence_at_period(s, p) ==
  IF ~overlaps_period_period_internal(s.period, p) THEN NoPiece
  ELSE IF s.count = 1 THEN Piece(Ok(tsequence_copy(s)))
  ELSE Piece(AtPeriodInter(s,
               intersection_period_period_internal(s.period, p)))

\* the entries result[0 .. ps->count - 1] filled by tsequence_minus_period1
RECURSIVE AtPeriodEach(_, _)
AtPeriodEachNext(piece, rest) ==
  IF piece.err # "none" THEN Fail(piece.err, <<>>)
  ELSE IF rest.err # "none" THEN rest
  ELSE Ok(<<piece.val>> \o rest.val)

AtPeriodEach(s, ps) ==
  IF ps = <<>> THEN Ok(<<>>)
  ELSE AtPeriodEachNext(tsequence_at_period(s, Head(ps)),
                        AtPeriodEach(s, Tail(ps)))

\* the result of tsequence_minus_period1: the array filled and the count
\* returned
MinusPeriod1Result(filled, count) ==
  [err |-> filled.err, val |-> filled.val, count |-> count]

\* the general case: ps is the period set computed.  The count returned is
\* ps->count read after pfree(ps): clobbered tells what the build leaves there
MinusPeriod1General(s, ps, clobbered) ==
  IF ps = <<>> THEN MinusPeriod1Result(Ok(<<>>), 0)
  ELSE MinusPeriod1Result(AtPeriodEach(s, ps),
                          IF clobbered THEN FreedInt32 ELSE Len(ps))

tsequence_minus_period1(s, p, clobbered) ==
  IF ~overlaps_period_period_internal(s.period, p)
  THEN MinusPeriod1Result(Ok(<<tsequence_copy(s)>>), 1)
  ELSE IF s.count = 1 THEN MinusPeriod1Result(Ok(<<>>), 0)
  ELSE MinusPeriod1General(s, minus_period_period_internal(s.period, p),
                           clobbered)

\* the loop of tsequence_at_periodset over the periods i .. count - 1;
\* seq1 is the result of tsequence_at_period
RECURSIVE AtPeriodSetLoop(_, _, _, _)
AtPeriodSetNext(s, ps, i, result, seq1) ==
  IF seq1.err # "none" THEN Fail(seq1.err, <<>>)
  ELSE IF s.period.upper < periodset_per_n(ps, i).upper
  THEN Ok(IF seq1.some THEN Append(result, seq1.val) ELSE result)
  ELSE AtPeriodSetLoop(s, ps, i + 1,
                       IF seq1.some THEN Append(result, seq1.val) ELSE result)

AtPeriodSetLoop(s, ps, i, result) ==
  IF i >= Len(ps) THEN Ok(result)
  ELSE AtPeriodSetNext(s, ps, i, result,
                       tsequence_at_period(s, periodset_per_n(ps, i)))

tsequence_at_periodset(s, ps) ==
  IF ~overlaps_period_period_internal(s.period, periodset_bbox(ps))
  THEN Ok(<<>>)
  ELSE IF s.count = 1
  THEN IF ~contains_periodset_timestamp_internal(ps, tsequence_inst_n(s, 0).t)
       THEN Ok(<<>>)
       ELSE Ok(<<tsequence_copy(s)>>)
  ELSE AtPeriodSetLoop(s, ps, periodset_find_timestamp(ps, s.period.lower),
                       <<>>)

\* the loop of tsequence_minus_periodset over the periods i .. count - 1;
\* minus is the result of tsequence_minus_period1 on curr
RECURSIVE MinusPeriodSetLoop(_, _, _, _, _)
MinusPeriodSetLast(ps, i, result, clobbered, curr) ==
  IF i = Len(ps) - 1 THEN Ok(Append(result, curr))
  ELSE MinusPeriodSetLoop(curr, ps, i + 1, result, clobbered)

MinusPeriodSetNext(ps, i, result, clobbered, minus) ==
  IF minus.err # "none" THEN Fail(minus.err, <<>>)
  ELSE IF minus.count = 0 THEN Ok(result)
  ELSE IF minus.count = 1
  THEN MinusPeriodSetLast(ps, i, result, clobbered, minus.val[1])
  ELSE IF Len(minus.val) < 2
  THEN Fail("read of an uninitialized sequence", <<>>)
  ELSE MinusPeriodSetLast(ps, i, Append(result, minus.val[1]), clobbered,
                          minus.val[2])

MinusPeriodSetLoop(curr, ps, i, result, clobbered) ==
  IF i >= Len(ps) THEN Ok(result)
  ELSE IF curr.period.upper < periodset_per_n(ps, i).lower
  THEN Ok(Append(result, curr))
  ELSE IF /\ curr.period.upper = periodset_per_n(ps, i).lower
          /\ curr.period.upper_inc
          /\ ~periodset_per_n(ps, i).lower_inc
  THEN Ok(Append(result, curr))
  ELSE MinusPeriodSetNext(ps, i, result, clobbered,
         tsequence_minus_period1(curr, periodset_per_n(ps, i), clobbered))

tsequence_minus_periodset(s, ps, from, clobbered) ==
  MinusPeriodSetLoop(tsequence_copy(s), ps, from, <<>>, clobbered)

(***************************************************************************)
(* Restriction to a range of base values.  A range is a record of its     *)
(* bounds lower and upper (base values) and of their inclusivity; the      *)
(* ranges of the model are finite and not empty                            *)
(***************************************************************************)
range_make(lower, upper, lower_inc, upper_inc) ==
  [lower |-> lower, upper |-> upper, lower_inc |-> lower_inc,
   upper_inc |-> upper_inc]

RangeIsEmpty(r) ==
  RLt(r.upper, r.lower) \/ (r.lower = r.upper /\ ~(r.lower_inc /\ r.upper_inc))

range_contains_elem_internal(r, v) ==
  /\ RLt(r.lower, v) \/ (r.lower = v /\ r.lower_inc)
  /\ RLt(v, r.upper) \/ (r.upper = v /\ r.upper_inc)

\* the greater of the two lower bounds and the smaller of the two upper bounds
range_intersect(r1, r2) ==
  range_make(
    RMax(r1.lower, r2.lower), RMin(r1.upper, r2.upper),
    IF RLt(r1.lower, r2.lower) THEN r2.lower_inc
    ELSE IF RLt(r2.lower, r1.lower) THEN r1.lower_inc
    ELSE r1.lower_inc /\ r2.lower_inc,
    IF RLt(r1.upper, r2.upper) THEN r1.upper_inc
    ELSE IF RLt(r2.upper, r1.upper) THEN r2.upper_inc
    ELSE r1.upper_inc /\ r2.upper_inc)

\* the box of a range has a value dimension only
range_to_tbox_internal(r) == [xmin |-> r.lower, xmax |-> r.upper]

\* box2 is the box of a range: the boxes share the value dimension only
overlaps_tbox_tbox_internal(box1, box2) ==
  RLe(box1.xmin, box2.xmax) /\ RLe(box2.xmin, box1.xmax)

\* the at-form of tnumberinst_restrict_range: the instant or NULL
tnumberinst_restrict_range(inst, range) ==
  range_contains_elem_internal(range, inst.value)

\* Min and Max on timestamps
Min(a, b) == IF a < b THEN a ELSE b
Max(a, b) == IF a > b THEN a ELSE b

\* the crossing of the segment with a bound of the intersection
AtRange1Bound(inst1, inst2, min, max, bound) ==
  IF RLe(min, bound) /\ RLe(bound, max)
  THEN tnumberseq_intersection_value(inst1, inst2, bound)
  ELSE [found |-> FALSE, t |-> 0]

\* the end of tnumberseq_at_range1: lo and up are the crossings of the
\* segment with the lower and the upper bound of the intersection
AtRange1Found(inst1, inst2, lower_incl, upper_incl, linear, increasing, intersect, lo, up) ==
  IF ~lo.found /\ ~up.found
  THEN SeqArgs(<<inst1, inst2>>, lower_incl, upper_incl)
  ELSE IF lo.found /\ up.found
  THEN SeqArgs(<<tsequence_at_timestamp1(inst1, inst2, linear, Min(lo.t, up.t)),
                 tsequence_at_timestamp1(inst1, inst2, linear, Max(lo.t, up.t))>>,
               intersect.lower_inc, intersect.upper_inc)
  ELSE IF lo.found
  THEN IF increasing
       THEN SeqArgs(<<tsequence_at_timestamp1(inst1, inst2, linear, lo.t), inst2>>,
                    intersect.lower_inc, upper_incl)
       ELSE SeqArgs(<<inst1, tsequence_at_timestamp1(inst1, inst2, linear, lo.t)>>,
                    lower_incl, intersect.upper_inc)
  ELSE IF increasing
       THEN SeqArgs(<<inst1, tsequence_at_timestamp1(inst1, inst2, linear, up.t)>>,
                    lower_incl, intersect.upper_inc)
       ELSE SeqArgs(<<tsequence_at_timestamp1(inst1, inst2, linear, up.t), inst2>>,
                    intersect.lower_inc, upper_incl)

\* the linear case of tnumberseq_at_range1: intersect is the intersection of
\* the range of the values of the segment with the range
AtRange1Linear(inst1, inst2, lower_incl, upper_incl, linear, increasing, intersect) ==
  LET dlower == intersect.lower
      dupper == intersect.upper
      dvalue1 == inst1.value
      dvalue2 == inst2.value
      min == RMin(dvalue1, dvalue2)
      max == RMax(dvalue1, dvalue2)
  IN  IF RangeIsEmpty(intersect) THEN NoSeqArgs
      ELSE IF dlower = dupper
      THEN SeqArgs(<<tinstant_make(intersect.lower,
                                   IF dlower = dvalue1 THEN inst1.t ELSE inst2.t,
                                   inst1.valuetypid)>>, TRUE, TRUE)
      ELSE AtRange1Found(inst1, inst2, lower_incl, upper_incl, linear,
             increasing, intersect,
             AtRange1Bound(inst1, inst2, min, max, dlower),
             AtRange1Bound(inst1, inst2, min, max, dupper))

\* the sequence tnumberseq_at_range1 makes, as arguments of tsequence_make
AtRange1Args(inst1, inst2, lower_incl, upper_incl, linear, range) ==
  LET value1 == inst1.value
      value2 == inst2.value
      increasing == RLt(value1, value2)
  IN  IF ~linear \/ datum_eq(value1, value2)
      THEN IF ~range_contains_elem_internal(range, value1) THEN NoSeqArgs
           ELSE SeqArgs(<<inst1, IF linear THEN inst2
                                 ELSE tinstant_make(value1, inst2.t, inst1.valuetypid)>>,
                        lower_incl, IF linear THEN upper_incl ELSE FALSE)
      ELSE AtRange1Linear(inst1, inst2, lower_incl, upper_incl, linear, increasing,
             range_intersect(
               IF increasing THEN range_make(value1, value2, lower_incl, upper_incl)
               ELSE range_make(value2, value1, upper_incl, lower_incl),
               range))

tnumberseq_at_range1(inst1, inst2, lower_incl, upper_incl, linear, range) ==
  MakePiece(AtRange1Args(inst1, inst2, lower_incl, upper_incl, linear, range),
            linear)

\* the loop of the at-form of tnumberseq_restrict_range1 over the segments
\* i = 1 .. count - 1; AtRangeNext is the end of its body, seq1 the result of
\* tnumberseq_at_range1
RECURSIVE AtRangeLoop(_, _, _, _, _)
AtRangeNext(s, range, i, result, seq1) ==
  IF seq1.err # "none" THEN Fail(seq1.err, <<>>)
  ELSE AtRangeLoop(s, range, i + 1, TRUE,
                   IF seq1.some THEN Append(result, seq1.val) ELSE result)

AtRangeLoop(s, range, i, lower_inc, result) ==
  IF i > s.count - 1 THEN Ok(result)
  ELSE AtRangeNext(s, range, i, result,
         tnumberseq_at_range1(tsequence_inst_n(s, i - 1), tsequence_inst_n(s, i),
           lower_inc, IF i = s.count - 1 THEN s.period.upper_inc ELSE FALSE,
           s.linear, range))

\* the sequence for the inclusive upper bound of a step sequence, when the
\* range contains the value of the last instant; r is the result of the loop
AtRangeStepEnd(s, range, r) ==
  IF r.err # "none" THEN r
  ELSE IF ~s.linear /\ s.period.upper_inc
          /\ range_contains_elem_internal(range,
               tsequence_inst_n(s, s.count - 1).value)
  THEN MinusStepLast(tsequence_make(<<tsequence_inst_n(s, s.count - 1)>>,
                                    TRUE, TRUE, STEP, FALSE), r.val)
  ELSE r

\* tnumberseq_restrict_range1 with atfunc = REST_AT
RestrictRange1At(s, range) ==
  IF ~overlaps_tbox_tbox_internal(s.bbox, range_to_tbox_internal(range))
  THEN Ok(<<>>)
  ELSE IF s.count = 1
  THEN IF ~tnumberinst_restrict_range(tsequence_inst_n(s, 0), range) THEN Ok(<<>>)
       ELSE Ok(<<tsequence_copy(s)>>)
  ELSE AtRangeStepEnd(s, range, AtRangeLoop(s, range, 1, s.period.lower_inc, <<>>))

\* the at-form of tnumberinst_restrict_ranges: the instant or NULL
tnumberinst_restrict_ranges(inst, normranges) ==
  \E j \in 1..Len(normranges) :
    range_contains_elem_internal(normranges[j], inst.value)

\* the order of two periods: by lower bound, then by upper bound
period_cmp_internal(p1, p2) ==
  IF p1.lower # p2.lower THEN (IF p1.lower < p2.lower THEN -1 ELSE 1)
  ELSE IF p1.lower_inc # p2.lower_inc THEN (IF p1.lower_inc THEN -1 ELSE 1)
  ELSE IF p1.upper # p2.upper THEN (IF p1.upper < p2.upper THEN -1 ELSE 1)
  ELSE IF p1.upper_inc # p2.upper_inc THEN (IF p1.upper_inc THEN 1 ELSE -1)
  ELSE 0

\* the array of sequences sorted by period
RECURSIVE tsequencearr_sort(_)
SortInsert(sorted, s) ==
  LET k == Cardinality({i \in 1..Len(sorted) :
                          period_cmp_internal(sorted[i].period, s.period) <= 0})
  IN  SubSeq(sorted, 1, k) \o <<s>> \o SubSeq(sorted, k + 1, Len(sorted))

tsequencearr_sort(sequences) ==
  IF Len(sequences) <= 1 THEN sequences
  ELSE SortInsert(tsequencearr_sort(SubSeq(sequences, 1, Len(sequences) - 1)),
                  sequences[Len(sequences)])

\* the loops of the at-form of tnumberseq_restrict_ranges1 over the segments
\* i = 1 .. count - 1 and over the ranges j = 0 .. count - 1; AtRangesNext is
\* the end of the body, seq1 the result of tnumberseq_at_range1
RECURSIVE AtRangesLoop(_, _, _, _, _, _)
AtRangesNext(s, normranges, i, j, lower_inc, result, seq1) ==
  IF seq1.err # "none" THEN Fail(seq1.err, <<>>)
  ELSE AtRangesLoop(s, normranges, i, j + 1, lower_inc,
                    IF seq1.some THEN Append(result, seq1.val) ELSE result)

AtRangesLoop(s, normranges, i, j, lower_inc, result) ==
  IF i > s.count - 1 THEN Ok(result)
  ELSE IF j > Len(normranges) - 1
  THEN AtRangesLoop(s, normranges, i + 1, 0, TRUE, result)
  ELSE AtRangesNext(s, normranges, i, j, lower_inc, result,
         tnumberseq_at_range1(tsequence_inst_n(s, i - 1), tsequence_inst_n(s, i),
           lower_inc, IF i = s.count - 1 THEN s.period.upper_inc ELSE FALSE,
           s.linear, normranges[j + 1]))

\* the end of the at-form of tnumberseq_restrict_ranges1: r is the result of
\* the loops
AtRangesEnd(r) ==
  IF r.err # "none" THEN r
  ELSE IF Len(r.val) = 0 THEN Ok(<<>>)
  ELSE IF Len(r.val) > 1 THEN Ok(tsequencearr_sort(r.val))
  ELSE r

\* tnumberseq_restrict_ranges1 with atfunc = REST_AT
RestrictRanges1At(s, normranges) ==
  IF s.count = 1
  THEN IF ~tnumberinst_restrict_ranges(tsequence_inst_n(s, 0), normranges)
       THEN Ok(<<>>)
       ELSE Ok(<<tsequence_copy(s)>>)
  ELSE AtRangesEnd(
         AtRangeStepEnd(s, normranges[Len(normranges)],
           AtRangesLoop(s, normranges, 1, 0, s.period.lower_inc, <<>>)))

(***************************************************************************)
(* Normalization of an array of sequences                                  *)
(***************************************************************************)
\* the first test of the loop body of tsequencearr_normalize: the last
\* instant of seq1 and the first instant of seq2 are both removed
JoinRemoveBoth(seq1, seq2) ==
  LET linear == seq1.linear
      last2 == tsequence_inst_n(seq1, seq1.count - 2)
      last1 == tsequence_inst_n(seq1, seq1.count - 1)
      first1 == tsequence_inst_n(seq2, 0)
      first2 == tsequence_inst_n(seq2, 1)
  IN  /\ seq1.count # 1
      /\ seq2.count # 1
      /\ \/ (~linear /\ datum_eq(last2.value, last1.value)
                     /\ datum_eq(last1.value, first1.value))
         \/ (/\ datum_eq(last2.value, last1.value)
             /\ datum_eq(last1.value, first1.value)
             /\ datum_eq(first1.value, first2.value))
         \/ (/\ datum_eq(last1.value, first1.value)
             /\ datum_collinear(seq1.valuetypid, last2.value, first1.value,
                                first2.value, last2.t, first1.t, first2.t))

\* one iteration of the loop of tsequencearr_normalize: the sequence that
\* replaces seq1, or NullSeq when seq2 is not joined to seq1
NormalizeJoin(seq1, seq2) ==
  LET linear == seq1.linear
      last1 == tsequence_inst_n(seq1, seq1.count - 1)
      first1 == tsequence_inst_n(seq2, 0)
      adjacent == /\ seq1.period.upper = seq2.period.lower
                  /\ (seq1.period.upper_inc \/ seq2.period.lower_inc)
  IN  IF adjacent /\ JoinRemoveBoth(seq1, seq2)
      THEN tsequence_join(seq1, seq2, TRUE, TRUE)
      ELSE IF adjacent /\ ~linear /\ ~seq1.period.upper_inc
      THEN tsequence_join(seq1, seq2, TRUE, FALSE)
      ELSE IF adjacent /\ datum_eq(last1.value, first1.value)
      THEN tsequence_join(seq1, seq2, FALSE, TRUE)
      ELSE NullSeq

RECURSIVE NormalizeArrLoop(_, _, _, _)
NormalizeArrLoop(sequences, i, seq1, result) ==
  IF i > Len(sequences) THEN Append(result, seq1)
  ELSE LET joined == NormalizeJoin(seq1, sequences[i])
       IN  IF joined # NullSeq
           THEN NormalizeArrLoop(sequences, i + 1, joined, result)
           ELSE NormalizeArrLoop(sequences, i + 1, sequences[i],
                                 Append(result, seq1))

\* precondition: Len(sequences) > 0
tsequencearr_normalize(sequences) ==
  NormalizeArrLoop(sequences, 2, sequences[1], <<>>)

(***************************************************************************)
(* Merge of an array of sequences.  The buffer instants is allocated with  *)
(* palloc and not cleared: a slot that was never written holds junk.inst,  *)
(* which is NoInstant when it is no pointer to an instant.  A read of      *)
(* sequences[count] yields junk.flag as the lower_inc of what is found     *)
(* there, "invalid" when the read fails.  A write past the end of the      *)
(* buffer lands in the slack of the allocation when junk.slack, and        *)
(* breaks the heap otherwise.                                              *)
(***************************************************************************)
NoInstant == [value |-> IntRat(0), t |-> -1, valuetypid |-> "none"]

\* a sequence set made from an array of sequences, as the array it holds
tsequenceset_make(sequences, normalize) ==
  IF normalize /\ Len(sequences) > 1 THEN tsequencearr_normalize(sequences)
  ELSE sequences

ensure_same_interpolation(seq1, seq2) == seq1.linear = seq2.linear

\* the first loop of tsequence_merge_array over i = 1 .. count - 1: countinst
\* holds the number of instants of the k + 1 resulting sequences found so far
RECURSIVE MergeCheckLoop(_, _, _)
MergeCheckLoop(sequences, i, countinst) ==
  IF i > Len(sequences) - 1 THEN Ok(countinst)
  ELSE IF ~ensure_same_interpolation(sequences[i], sequences[i + 1])
  THEN Fail("The temporal values must have the same interpolation", <<>>)
  ELSE IF tsequence_inst_n(sequences[i], sequences[i].count - 1).t
            > tsequence_inst_n(sequences[i + 1], 0).t
  THEN Fail("The temporal values cannot overlap on time", <<>>)
  ELSE IF tsequence_inst_n(sequences[i], sequences[i].count - 1).t
            = tsequence_inst_n(sequences[i + 1], 0).t
          /\ sequences[i + 1].period.lower_inc
  THEN IF /\ datum_ne(tsequence_inst_n(sequences[i], sequences[i].count - 1).value,
                      tsequence_inst_n(sequences[i + 1], 0).value)
          /\ sequences[i].period.upper_inc
          /\ sequences[i + 1].period.lower_inc
       THEN Fail("The temporal values have different value at their overlapping instant",
                 <<>>)
       ELSE MergeCheckLoop(sequences, i + 1,
              [countinst EXCEPT ![Len(countinst)] = @ + sequences[i + 1].count - 1])
  ELSE MergeCheckLoop(sequences, i + 1, Append(countinst, sequences[i + 1].count))

\* the number of instants of the longest resulting sequence
RECURSIVE MergeMaxCount(_)
MergeMaxCount(countinst) ==
  IF Len(countinst) = 1 THEN countinst[1]
  ELSE Max(countinst[Len(countinst)],
           MergeMaxCount(SubSeq(countinst, 1, Len(countinst) - 1)))

\* instants[m] = inst on the buffer buf
BufWrite(buf, m, inst, junk) ==
  IF m < Len(buf.slots) THEN [buf EXCEPT !.slots[m + 1] = inst]
  ELSE IF junk.slack THEN [buf EXCEPT !.slots = Append(@, inst)]
  ELSE [buf EXCEPT !.broken = TRUE]

\* for (j = start; j < end; j++) instants[m++] = tsequence_inst_n(s, j)
RECURSIVE MergeCopyInstants(_, _, _, _, _, _)
MergeCopyInstants(s, j, end, m, buf, junk) ==
  IF j >= end THEN [m |-> m, buf |-> buf]
  ELSE MergeCopyInstants(s, j + 1, end, m + 1,
                         BufWrite(buf, m, tsequence_inst_n(s, j), junk), junk)

\* the while loop that fills the buffer for one resulting sequence of cnt
\* instants from the input sequences l, l + 1, ...; c is the state after the
\* instants of one input sequence are copied
RECURSIVE MergeCopyLoop(_, _, _, _, _, _)
MergeCopyNext(sequences, cnt, l, junk, c) ==
  MergeCopyLoop(sequences, cnt, c.m, l + 1, c.buf, junk)

MergeCopyLoop(sequences, cnt, m, l, buf, junk) ==
  IF ~(m < cnt /\ l < Len(sequences)) THEN [m |-> m, l |-> l, buf |-> buf]
  ELSE MergeCopyNext(sequences, cnt, l, junk,
         MergeCopyInstants(sequences[l + 1],
           IF sequences[l + 1].period.lower_inc
              /\ (m = 0 \/ ~sequences[l].period.upper_inc)
           THEN 0 ELSE 1,
           IF sequences[l + 1].period.upper_inc THEN sequences[l + 1].count
           ELSE sequences[l + 1].count - 1,
           m, buf, junk))

\* the call of tsequence_make on the first cnt slots of the buffer
MergeMake(buf, cnt, lowerinc, upperinc, linear) ==
  IF buf.broken THEN Fail("write past the end of instants", NullSeq)
  ELSE IF \E j \in 1..cnt : buf.slots[j] = NoInstant
  THEN Fail("read of an uninitialized instant", NullSeq)
  ELSE tsequence_make(SubSeq(buf.slots, 1, cnt), lowerinc, upperinc, linear, TRUE)

\* the second loop of tsequence_merge_array over the resulting sequences
\* i = 0 .. k - 1; c is the state after the while loop, made the result of
\* tsequence_make
RECURSIVE MergeBuildLoop(_, _, _, _, _, _, _)
MergeBuildNext(sequences, countinst, i, l, buf, newseqs, junk, made) ==
  IF made.err # "none" THEN Fail(made.err, <<>>)
  ELSE MergeBuildLoop(sequences, countinst, i + 1, l, buf,
                      Append(newseqs, made.val), junk)

MergeBuildClose(sequences, countinst, i, newseqs, junk, lowerinc, c) ==
  \* upperinc is read from sequences[l - 1]
  IF sequences[c.l].period.upper_inc
  THEN MergeBuildNext(sequences, countinst, i, c.l, c.buf, newseqs, junk,
         MergeMake(c.buf, countinst[i + 1], lowerinc, TRUE, sequences[1].linear))
  ELSE MergeBuildNext(sequences, countinst, i, c.l,
         BufWrite(c.buf, c.m,
                  tsequence_inst_n(sequences[c.l], sequences[c.l].count - 1), junk),
         newseqs, junk,
         MergeMake(BufWrite(c.buf, c.m,
                     tsequence_inst_n(sequences[c.l], sequences[c.l].count - 1),
                     junk),
                   countinst[i + 1], lowerinc, FALSE, sequences[1].linear))

MergeBuildLoop(sequences, countinst, i, l, buf, newseqs, junk) ==
  IF i > Len(countinst) - 1 THEN Ok(newseqs)
  ELSE IF l >= Len(sequences) /\ junk.flag = "invalid"
  THEN Fail("read past the end of sequences", <<>>)
  ELSE MergeBuildClose(sequences, countinst, i, newseqs, junk,
         IF l < Len(sequences) THEN sequences[l + 1].period.lower_inc
         ELSE junk.flag = "true",
         MergeCopyLoop(sequences, countinst[i + 1], 0, l, buf, junk))

\* the end of tsequence_merge_array: newseqs is the result of the second loop
MergeResult(newseqs) ==
  IF newseqs.err # "none" THEN newseqs
  ELSE IF Len(newseqs.val) = 1 THEN newseqs
  ELSE Ok(tsequenceset_make(newseqs.val, TRUE))

\* tsequence_merge_array after the sort: countinst is the result of the
\* first loop
MergeSorted(sequences, countinst, junk) ==
  IF countinst.err # "none" THEN countinst
  ELSE MergeResult(
         MergeBuildLoop(sequences, countinst.val, 0, 0,
           [slots |-> [j \in 1..MergeMaxCount(countinst.val) |-> junk.inst],
            broken |-> FALSE],
           <<>>, junk))

\* the array of the caller after the call: tsequence_merge_array sorts it
MergeSortedArray(sequences) ==
  IF Len(sequences) > 1 THEN tsequencearr_sort(sequences) ELSE sequences

\* err, val: the result; sequences: the array of the caller after the call
MergeOutcome(sequences, r) ==
  [err |-> r.err, val |-> r.val, sequences |-> sequences]

\* precondition: Len(sequences) > 0
tsequence_merge_array(sequences, junk) ==
  MergeOutcome(MergeSortedArray(sequences),
    MergeSorted(MergeSortedArray(sequences),
      MergeCheckLoop(MergeSortedArray(sequences), 1,
                     <<MergeSortedArray(sequences)[1].count>>),
      junk))

(***************************************************************************)
(* Casts between temporal integers and temporal floats                     *)
(***************************************************************************)
\* (double) of an int32
Int32ToFloat8(v) == v

\* (int32) of a double: truncation toward zero, in model units
Float8ToInt32(v) ==
  IntRat(RTrunc(RDiv(v, IntRat(UnitsPerOne))) * UnitsPerOne)

tintseq_to_tfloatseq(s) ==
  [s EXCEPT !.valuetypid = FLOAT8OID,
            !.instants = [i \in 1..s.count |->
                            [s.instants[i] EXCEPT !.valuetypid = FLOAT8OID,
                                                  !.value = Int32ToFloat8(@)]]]

tfloatseq_to_tintseq(s) ==
  IF s.linear
  THEN Fail("Cannot cast temporal float with linear interpolation to temporal integer",
            NullSeq)
  ELSE Ok([s EXCEPT !.valuetypid = INT4OID,
                    !.instants = [i \in 1..s.count |->
                                    [s.instants[i] EXCEPT !.valuetypid = INT4OID,
                                                          !.value = Float8ToInt32(@)]]])

(***************************************************************************)
(* Comparison.  The flags of two sequences of one base type differ in the  *)
(* interpolation bit alone                                                 *)
(***************************************************************************)
period_eq_internal(p1, p2) ==
  /\ p1.lower = p2.lower
  /\ p1.upper = p2.upper
  /\ p1.lower_inc = p2.lower_inc
  /\ p1.upper_inc = p2.upper_inc

\* the order of two base values
datum_cmp(v1, v2) == IF RLt(v1, v2) THEN -1 ELSE IF RLt(v2, v1) THEN 1 ELSE 0

\* the order of two timestamps
timestamp_cmp_internal(t1, t2) == IF t1 < t2 THEN -1 ELSE IF t1 > t2 THEN 1 ELSE 0

\* two TBOX are equal when their four bounds are
temporal_bbox_eq(box1, box2) ==
  /\ box1.xmin = box2.xmin
  /\ box1.tmin = box2.tmin
  /\ box1.xmax = box2.xmax
  /\ box1.tmax = box2.tmax

\* the order of two TBOX: by their minima, then by their maxima
temporal_bbox_cmp(box1, box2) ==
  LET byxmin == datum_cmp(box1.xmin, box2.xmin)
      byxmax == datum_cmp(box1.xmax, box2.xmax)
  IN  IF byxmin # 0 THEN byxmin
      ELSE IF box1.tmin # box2.tmin
      THEN timestamp_cmp_internal(box1.tmin, box2.tmin)
      ELSE IF byxmax # 0 THEN byxmax
      ELSE timestamp_cmp_internal(box1.tmax, box2.tmax)

tinstant_eq(inst1, inst2) ==
  inst1.t = inst2.t /\ datum_eq(inst1.value, inst2.value)

\* the order of two instants: by timestamp, then by value
tinstant_cmp(inst1, inst2) ==
  IF inst1.t # inst2.t THEN timestamp_cmp_internal(inst1.t, inst2.t)
  ELSE datum_cmp(inst1.value, inst2.value)

tsequence_eq(seq1, seq2) ==
  IF \/ seq1.count # seq2.count
     \/ seq1.linear # seq2.linear
     \/ ~period_eq_internal(seq1.period, seq2.period)
  THEN FALSE
  ELSE IF ~temporal_bbox_eq(seq1.bbox, seq2.bbox) THEN FALSE
  ELSE \A i \in 0..(seq1.count - 1) :
         tinstant_eq(tsequence_inst_n(seq1, i), tsequence_inst_n(seq2, i))

\* the for loop of tsequence_cmp over i .. count - 1: the first result that is
\* not zero, or zero
RECURSIVE CmpInstantsLoop(_, _, _, _)
CmpInstantsLoop(seq1, seq2, i, count) ==
  IF i >= count THEN 0
  ELSE LET result == tinstant_cmp(tsequence_inst_n(seq1, i),
                                  tsequence_inst_n(seq2, i))
       IN  IF result # 0 THEN result
           ELSE CmpInstantsLoop(seq1, seq2, i + 1, count)

\* the comparison of the flags
CmpFlags_equal(seq1, seq2) == 0
CmpFlags(seq1, seq2) ==
  IF ~seq1.linear /\ seq2.linear THEN -1
  ELSE IF seq1.linear /\ ~seq2.linear THEN 1
  ELSE 0

tsequence_cmp(seq1, seq2) ==
  LET byperiod == period_cmp_internal(seq1.period, seq2.period)
      bybox == temporal_bbox_cmp(seq1.bbox, seq2.bbox)
      byinstants ==
        CmpInstantsLoop(seq1, seq2, 0, Min(seq1.count, seq2.count))
  IN  IF byperiod # 0 THEN byperiod
      ELSE IF bybox # 0 THEN bybox
      ELSE IF byinstants # 0 THEN byinstants
      ELSE CmpFlags(seq1, seq2)

(***************************************************************************)
(* Binary representation.  The buffer is the sequence of the bytes sent,   *)
(* followed by one item for each instant sent by tinstant_write            *)
(***************************************************************************)
NORMALIZE == TRUE

\* the four bytes of a 32-bit integer in network order, and back
pq_sendint32(n) ==
  <<(n \div 16777216) % 256, (n \div 65536) % 256, (n \div 256) % 256, n % 256>>
pq_getmsgint(buf, at) ==
  buf[at] * 16777216 + buf[at + 1] * 65536 + buf[at + 2] * 256 + buf[at + 3]

pq_sendbyte(b) == <<IF b THEN 1 ELSE 0>>
pq_getmsgbyte(buf, at) == buf[at] # 0

\* an instant on the wire: its timestamp and its base value
tinstant_write(inst) == <<[t |-> inst.t, value |-> inst.value]>>
tinstant_read(buf, at, valuetypid) ==
  tinstant_make(buf[at].value, buf[at].t, valuetypid)

\* the instants i .. count - 1 sent one after the other
RECURSIVE WriteInstants(_, _)
WriteInstants(s, i) ==
  IF i >= s.count THEN <<>>
  ELSE tinstant_write(tsequence_inst_n(s, i)) \o WriteInstants(s, i + 1)

\* the bytes tsequence_write appends to the buffer
tsequence_write(s) ==
  pq_sendint32(s.count) \o pq_sendbyte(s.period.lower_inc)
    \o pq_sendbyte(s.period.upper_inc) \o pq_sendbyte(s.linear)
    \o WriteInstants(s, 0)

tsequence_read(buf, valuetypid) ==
  LET count == pq_getmsgint(buf, 1)
  IN  tsequence_make([i \in 1..count |-> tinstant_read(buf, 7 + i, valuetypid)],
                     pq_getmsgbyte(buf, 5), pq_getmsgbyte(buf, 6),
                     pq_getmsgbyte(buf, 7), NORMALIZE)

(***************************************************************************)
(* Always less than a base value                                           *)
(***************************************************************************)
datum_lt(v1, v2) == RLt(v1, v2)

\* bounding box test of the always-less comparisons: fails when the base
\* value is below the maximum of the box
temporal_bbox_always_lt_le(s, value) == ~RLt(value, s.bbox.xmax)

\* a segment with linear interpolation is always less than the base value
tlinearseq_always_lt1(value1, value2, lower_inc, upper_inc, value) ==
  IF datum_eq(value1, value2) THEN datum_lt(value1, value1)
  ELSE IF datum_lt(value1, value2)
  THEN datum_lt(value2, value) \/ (~upper_inc /\ datum_eq(value, value2))
  ELSE datum_lt(value1, value) \/ (~lower_inc /\ datum_eq(value1, value))

\* the segments of a sequence with linear interpolation, from segment i on
RECURSIVE AlwaysLtLoop(_, _, _, _, _)
AlwaysLtLoop(s, value, i, value1, lower_inc) ==
  IF i >= s.count THEN TRUE
  ELSE LET value2 == tsequence_inst_n(s, i).value
           upper_inc == IF i = s.count - 1 THEN s.period.upper_inc ELSE FALSE
       IN  IF ~tlinearseq_always_lt1(value1, value2, lower_inc, upper_inc, value)
           THEN FALSE
           ELSE AlwaysLtLoop(s, value, i + 1, value2, TRUE)

tsequence_always_lt(s, value) ==
  IF ~temporal_bbox_always_lt_le(s, value) THEN FALSE
  ELSE IF ~s.linear \/ s.count = 1
  THEN \A i \in 0..(s.count - 1) : datum_lt(tsequence_inst_n(s, i).value, value)
  ELSE AlwaysLtLoop(s, value, 1, tsequence_inst_n(s, 0).value, s.period.lower_inc)

(***************************************************************************)
(* Range of values of a float sequence with linear interpolation           *)
(***************************************************************************)
\* the instants strictly between the first and the last one, from i on
RECURSIVE RangeLoop(_, _, _, _, _, _)
RangeLoop(s, min, max, i, min_inc, max_inc) ==
  IF i >= s.count - 1 THEN range_make(min, max, min_inc, max_inc)
  ELSE LET inst == tsequence_inst_n(s, i)
           min_inc1 == min_inc \/ min = inst.value
           max_inc1 == max_inc \/ max = inst.value
       IN  IF min_inc1 /\ max_inc1 THEN range_make(min, max, min_inc1, max_inc1)
           ELSE RangeLoop(s, min, max, i + 1, min_inc1, max_inc1)

\* the bounds taken from the first and the last instant
RangeEnds(s, min, max, lower, lower_inc, upper, upper_inc) ==
  LET min_inc == RLt(min, lower) \/ (min = lower /\ lower_inc)
      max_inc == RLt(upper, max) \/ (max = upper /\ upper_inc)
  IN  IF ~min_inc \/ ~max_inc THEN RangeLoop(s, min, max, 1, min_inc, max_inc)
      ELSE range_make(min, max, min_inc, max_inc)

tfloatseq_range(s) ==
  LET box == s.bbox
      min == box.xmin
      max == box.xmax
      start == tsequence_inst_n(s, 0).value
      end == tsequence_inst_n(s, s.count - 1).value
  IN  IF box.xmin = box.xmax THEN range_make(min, max, TRUE, TRUE)
      ELSE IF RLt(start, end)
      THEN RangeEnds(s, min, max, start, s.period.lower_inc, end, s.period.upper_inc)
      ELSE RangeEnds(s, min, max, end, s.period.upper_inc, start, s.period.lower_inc)

(***************************************************************************)
(* From stepwise to linear interpolation                                   *)
(***************************************************************************)
\* one constant sequence with linear interpolation per segment, from
\* segment i on; result holds the returns of tsequence_make
RECURSIVE ToLinearLoop(_, _, _, _, _)
ToLinearLoop(s, i, inst1, lower_inc, result) ==
  IF i >= s.count THEN result
  ELSE LET inst2 == tsequence_inst_n(s, i)
           instants == <<inst1, tinstant_make(inst1.value, inst2.t, s.valuetypid)>>
           upper_inc == IF i = s.count - 1
                        THEN s.period.upper_inc /\ datum_eq(inst1.value, inst2.value)
                        ELSE FALSE
           made == tsequence_make(instants, lower_inc, upper_inc, LINEAR, FALSE)
       IN  ToLinearLoop(s, i + 1, inst2, TRUE, Append(result, made))

\* no closing instantaneous sequence
ToLinearLast_none(s, result) == result
\* the closing instantaneous sequence, when the upper bound is inclusive and
\* the last value differs from the one before
ToLinearLast(s, result) ==
  LET inst2 == tsequence_inst_n(s, s.count - 1)
      value1 == tsequence_inst_n(s, s.count - 2).value
  IN  IF s.period.upper_inc /\ datum_ne(value1, inst2.value)
      THEN Append(result, tsequence_make(<<inst2>>, TRUE, TRUE, LINEAR, FALSE))
      ELSE result

tstepseq_to_linear1(s) ==
  IF s.count = 1 THEN Ok(<<[tsequence_copy(s) EXCEPT !.linear = TRUE]>>)
  ELSE MakeAll(ToLinearLast(s, ToLinearLoop(s, 1, tsequence_inst_n(s, 0),
                                            s.period.lower_inc, <<>>)))

\* the sequence set is made of the sequences in order, without normalization
tstepseq_to_linear(s) == tstepseq_to_linear1(s)

(***************************************************************************)
(* Layout of the variable-length part of a sequence: the instants, the     *)
(* bounding box and the trajectory follow the struct and the offset array, *)
(* at the offsets recorded in the array.  sizes holds the VARSIZE of the   *)
(* instants, typ the bounding box size of the base type and whether it is  *)
(* a point type with precomputed trajectory, trajsize the VARSIZE of the   *)
(* trajectory.                                                             *)
(***************************************************************************)
SizeofTSequence == 48
SizeofSizeT == 8

\* the size rounded up to a multiple of eight bytes
double_pad(size) == IF size % 8 # 0 THEN size + (8 - (size % 8)) ELSE size

\* pos after storing the first n instants
RECURSIVE PosAfter(_, _)
PosAfter(sizes, n) ==
  IF n = 0 THEN 0 ELSE PosAfter(sizes, n - 1) + double_pad(sizes[n])

\* the allocation (zeroed) with the instants stored one after the other
LayoutInstants(sizes, typ, trajsize) ==
  LET count == Len(sizes)
      memsize == double_pad(typ.bboxsize) + PosAfter(sizes, count)
                   + (IF typ.isgeo /\ typ.hastraj THEN double_pad(trajsize) ELSE 0)
      pdata == double_pad(SizeofTSequence) + (count + 1) * SizeofSizeT
  IN  [count |-> count, sizes |-> sizes, bboxsize |-> typ.bboxsize,
       hastraj |-> typ.isgeo /\ typ.hastraj, trajsize |-> trajsize,
       pdata |-> pdata, varsize |-> pdata + memsize,
       offsets |-> [k \in 0..(count + 1) |->
                      IF k < count THEN PosAfter(sizes, k) ELSE 0]]

\* the bounding box stored at pos, and pos after it, as tsequence_make and
\* tsequence_join advance it
LayoutBox(lay, pos) ==
  IF lay.bboxsize # 0
  THEN [lay |-> [lay EXCEPT !.offsets[lay.count] = pos],
        pos |-> pos + double_pad(lay.bboxsize)]
  ELSE [lay |-> lay, pos |-> pos]

\* the bounding box stored at pos, as tsequence_append_tinstant stores it:
\* pos is left where it is
LayoutBoxAppend(lay, pos) ==
  IF lay.bboxsize # 0
  THEN [lay |-> [lay EXCEPT !.offsets[lay.count] = pos], pos |-> pos]
  ELSE [lay |-> lay, pos |-> pos]

\* the trajectory stored at pos
LayoutTraj(b) ==
  IF b.lay.hastraj THEN [b.lay EXCEPT !.offsets[b.lay.count + 1] = b.pos]
  ELSE b.lay

\* tsequence_make: sizes are those of the instants kept by the normalization
MakeLayout(sizes, typ, trajsize) ==
  LET lay == LayoutInstants(sizes, typ, trajsize)
  IN  LayoutTraj(LayoutBox(lay, PosAfter(sizes, lay.count)))

\* tsequence_join: the instants of seq1 without the last one when removelast,
\* then those of seq2 without the first one when removefirst
JoinLayout(sizes1, sizes2, removelast, removefirst, typ, trajsize) ==
  LET count1 == IF removelast THEN Len(sizes1) - 1 ELSE Len(sizes1)
      start2 == IF removefirst THEN 1 ELSE 0
      sizes == SubSeq(sizes1, 1, count1) \o SubSeq(sizes2, start2 + 1, Len(sizes2))
      lay == LayoutInstants(sizes, typ, trajsize)
  IN  LayoutTraj(LayoutBox(lay, PosAfter(sizes, lay.count)))

\* tsequence_append_tinstant: the first newcount - 1 instants of seq, then
\* inst; replaces tells that inst replaces the last instant of seq
AppendLayout(sizes, instsize, replaces, typ, trajsize) ==
  LET newcount == IF replaces THEN Len(sizes) ELSE Len(sizes) + 1
      stored == Append(SubSeq(sizes, 1, newcount - 1), instsize)
      lay == LayoutInstants(stored, typ, trajsize)
  IN  LayoutTraj(LayoutBoxAppend(lay, PosAfter(stored, lay.count)))

(***************************************************************************)
(* Synchronization                                                         *)
(***************************************************************************)
\* the patch of a step side with exclusive upper bound: the last value is
\* replaced by the value before it
SyncPatch(instants, k, linear, upper_inc) ==
  IF ~upper_inc /\ k > 1 /\ ~linear
     /\ datum_ne(instants[k - 1].value, instants[k].value)
  THEN [instants EXCEPT ![k] = tinstant_make(instants[k - 1].value,
                                  instants[k].t, instants[k].valuetypid)]
  ELSE instants

\* the while loop of synchronize_tsequence_tsequence; i, j are the C indexes,
\* instants1/instants2 the arrays filled so far (k = Len(instants1)).
\* SyncLoop tests the loop condition, SyncInstants synchronizes the instants
\* (at1, at2: the instants of seq1 at inst2.t and of seq2 at inst1.t),
\* SyncCrossing adds the crossing cross, if any, before the instants
RECURSIVE SyncLoop(_, _, _, _, _, _, _, _, _, _)
SyncCrossing(seq1, seq2, inter, crossings, i2, j2, new1, new2, instants1, instants2, cross) ==
  LET out1 == IF cross.found
              THEN instants1 \o <<tinstant_make(cross.inter1, cross.t,
                                                seq1.valuetypid), new1>>
              ELSE Append(instants1, new1)
      out2 == IF cross.found
              THEN instants2 \o <<tinstant_make(cross.inter2, cross.t,
                                                seq2.valuetypid), new2>>
              ELSE Append(instants2, new2)
  IN  IF i2 = seq1.count \/ j2 = seq2.count
      THEN [err |-> "none", instants1 |-> out1, instants2 |-> out2]
      ELSE SyncLoop(seq1, seq2, inter, crossings, i2, j2,
                    tsequence_inst_n(seq1, i2), tsequence_inst_n(seq2, j2),
                    out1, out2)

SyncInstants(seq1, seq2, inter, crossings, i, j, inst1, inst2, instants1, instants2, at1, at2) ==
  LET i2 == IF inst1.t <= inst2.t THEN i + 1 ELSE i
      j2 == IF inst2.t <= inst1.t THEN j + 1 ELSE j
      new1 == IF inst1.t > inst2.t THEN at1.inst ELSE inst1
      new2 == IF inst1.t < inst2.t THEN at2.inst ELSE inst2
      missing == \/ (inst1.t < inst2.t /\ ~(at2.found /\ at2.err = "none"))
                 \/ (inst1.t > inst2.t /\ ~(at1.found /\ at1.err = "none"))
      k == Len(instants1)
  IN  IF missing
      THEN [err |-> "read of a NULL instant", instants1 |-> instants1,
            instants2 |-> instants2]
      ELSE SyncCrossing(seq1, seq2, inter, crossings, i2, j2, new1, new2,
             instants1, instants2,
             IF crossings /\ (seq1.linear \/ seq2.linear) /\ k > 0
             THEN tsequence_intersection(instants1[k], new1, seq1.linear,
                                         instants2[k], new2, seq2.linear)
             ELSE [found |-> FALSE, inter1 |-> IntRat(0),
                   inter2 |-> IntRat(0), t |-> 0])

SyncLoop(seq1, seq2, inter, crossings, i, j, inst1, inst2, instants1, instants2) ==
  IF ~(i < seq1.count /\ j < seq2.count
       /\ (inst1.t <= inter.upper \/ inst2.t <= inter.upper))
  THEN [err |-> "none", instants1 |-> instants1, instants2 |-> instants2]
  ELSE SyncInstants(seq1, seq2, inter, crossings, i, j, inst1, inst2,
                    instants1, instants2,
                    tsequence_at_timestamp(seq1, inst2.t),
                    tsequence_at_timestamp(seq2, inst1.t))

NoSync(e, found) ==
  [err |-> e, found |-> found, sync1 |-> NullSeq, sync2 |-> NullSeq]

\* the result of synchronize_tsequence_tsequence from the two sequences made
SyncResult(m1, m2) ==
  IF m1.err # "none" THEN NoSync(m1.err, FALSE)
  ELSE IF m2.err # "none" THEN NoSync(m2.err, FALSE)
  ELSE [err |-> "none", found |-> TRUE, sync1 |-> m1.val, sync2 |-> m2.val]

\* the case of an instantaneous intersection; a1, a2 are the instants of the
\* sequences at inter.lower
SyncInstantaneous(seq1, seq2, a1, a2) ==
  IF ~(a1.found /\ a1.err = "none" /\ a2.found /\ a2.err = "none")
  THEN NoSync("read of a NULL instant", FALSE)
  ELSE SyncResult(tsequence_make(<<a1.inst>>, TRUE, TRUE, seq1.linear, FALSE),
                  tsequence_make(<<a2.inst>>, TRUE, TRUE, seq2.linear, FALSE))

\* SyncMake giving each output the upper bound of its own input
SyncMake_own_upper_inc(seq1, seq2, inter, loop) ==
  LET k == Len(loop.instants1)
  IN  IF loop.err # "none" THEN NoSync(loop.err, FALSE)
      ELSE IF k = 0 THEN NoSync("empty instant array", FALSE)
      ELSE SyncResult(
             tsequence_make(SyncPatch(loop.instants1, k, seq1.linear,
                                      seq1.period.upper_inc),
                            inter.lower_inc, seq1.period.upper_inc, seq1.linear,
                            FALSE),
             tsequence_make(SyncPatch(loop.instants2, k, seq2.linear,
                                      seq2.period.upper_inc),
                            inter.lower_inc, seq2.period.upper_inc, seq2.linear,
                            FALSE))

\* the end of synchronize_tsequence_tsequence: loop is the result of the
\* while loop
SyncMake(seq1, seq2, inter, loop) ==
  LET k == Len(loop.instants1)
  IN  IF loop.err # "none" THEN NoSync(loop.err, FALSE)
      ELSE IF k = 0 THEN NoSync("empty instant array", FALSE)
      ELSE SyncResult(
             tsequence_make(SyncPatch(loop.instants1, k, seq1.linear,
                                      inter.upper_inc),
                            inter.lower_inc, inter.upper_inc, seq1.linear, FALSE),
             tsequence_make(SyncPatch(loop.instants2, k, seq2.linear,
                                      inter.upper_inc),
                            inter.lower_inc, inter.upper_inc, seq2.linear, FALSE))

\* the general case; a1, a2 are the instants of the sequences at inter.lower
SyncGeneral(seq1, seq2, inter, crossings, a1, a2) ==
  LET first1 == tsequence_inst_n(seq1, 0)
      first2 == tsequence_inst_n(seq2, 0)
      cut1 == first1.t < inter.lower
      cut2 == ~cut1 /\ first2.t < inter.lower
      inst1 == IF cut1 THEN a1.inst ELSE first1
      inst2 == IF cut2 THEN a2.inst ELSE first2
      i == IF cut1 THEN tsequence_find_timestamp(seq1, inter.lower) ELSE 0
      j == IF cut2 THEN tsequence_find_timestamp(seq2, inter.lower) ELSE 0
      missing == \/ (cut1 /\ ~(a1.found /\ a1.err = "none" /\ i >= 0))
                 \/ (cut2 /\ ~(a2.found /\ a2.err = "none" /\ j >= 0))
  IN  IF missing THEN NoSync("read of a NULL instant", FALSE)
      ELSE SyncMake(seq1, seq2, inter,
                    SyncLoop(seq1, seq2, inter, crossings, i, j, inst1, inst2,
                             <<>>, <<>>))

\* the body of synchronize_tsequence_tsequence after the test on the periods;
\* inter is their intersection
SyncInter(seq1, seq2, inter, crossings) ==
  IF inter.lower = inter.upper
  THEN SyncInstantaneous(seq1, seq2,
                         tsequence_at_timestamp(seq1, inter.lower),
                         tsequence_at_timestamp(seq2, inter.lower))
  ELSE SyncGeneral(seq1, seq2, inter, crossings,
                   tsequence_at_timestamp(seq1, inter.lower),
                   tsequence_at_timestamp(seq2, inter.lower))

synchronize_tsequence_tsequence(seq1, seq2, crossings) ==
  IF ~overlaps_period_period_internal(seq1.period, seq2.period)
  THEN NoSync("none", FALSE)
  ELSE SyncInter(seq1, seq2,
         intersection_period_period_internal(seq1.period, seq2.period),
         crossings)

(***************************************************************************)
(* Inputs                                                                  *)
(***************************************************************************)
Times == 0..MaxT
Values == {IntRat(v) : v \in 0..MaxVal}
BaseTypes == {FLOAT8OID}
Instants(typ) == {tinstant_make(v, t, typ) : v \in Values, t \in Times}

\* arrays of 1 .. MaxCount instants of one base type, in any order
InstantArrays ==
  UNION {[1..n -> Instants(typ)] : n \in 1..MaxCount, typ \in BaseTypes}

\* the arguments of tsequence_make
MakeArgs ==
  [instants : InstantArrays, lower_inc : BOOLEAN, upper_inc : BOOLEAN,
   linear : BOOLEAN, normalize : BOOLEAN]

MakeOf(a) ==
  tsequence_make(a.instants, a.lower_inc, a.upper_inc, a.linear, a.normalize)

\* the sequences tsequence_make returns
MadeSeqs == {MakeOf(a).val : a \in {x \in MakeArgs : MakeOf(x).err = "none"}}

\* arrays with increasing timestamps
InstantRuns == {a \in InstantArrays : ensure_valid_tinstantarr(a)}

Normalized(s) ==
  IF s.count = 1 THEN TRUE
  ELSE tinstantarr_normalize(s.instants, s.linear) = s.instants

\* seq2 may follow seq1 in the array given to tsequencearr_normalize
MayFollow(seq1, seq2) ==
  /\ seq1.valuetypid = seq2.valuetypid
  /\ seq1.linear = seq2.linear
  /\ Normalized(seq1)
  /\ Normalized(seq2)
  /\ seq1.period.upper <= seq2.period.lower
  /\ (seq1.period.upper = seq2.period.lower
       /\ seq1.period.upper_inc /\ seq2.period.lower_inc
        => datum_eq(tsequence_inst_n(seq1, seq1.count - 1).value,
                    tsequence_inst_n(seq2, 0).value))

(***************************************************************************)
(* tsequence_make as a function of its arguments                           *)
(***************************************************************************)
InitMake ==
  /\ call \in [op : {"args"}, args : MakeArgs]
  /\ seq = NullSeq
  /\ res = <<>>
  /\ err = "none"

CallMake ==
  /\ call.op = "args"
  /\ call' = [call EXCEPT !.op = "tsequence_make"]
  /\ seq' = MakeOf(call.args).val
  /\ err' = MakeOf(call.args).err
  /\ UNCHANGED res

NextMake == CallMake

SpecMake == InitMake /\ [][NextMake]_vars

(***************************************************************************)
(* tinstantarr_normalize as a function of its arguments, applied once and  *)
(* then to its own output                                                  *)
(***************************************************************************)
\* runs of 2 .. NormMaxCount instants with increasing timestamps
NormRuns ==
  {a \in UNION {[1..n -> {tinstant_make(v, t, typ) : v \in Values,
                                                      t \in 0..NormMaxT}]
                  : n \in 2..NormMaxCount, typ \in BaseTypes}
     : ensure_valid_tinstantarr(a)}

InitNorm ==
  /\ call \in [op : {"args"}, args : [instants : NormRuns, linear : BOOLEAN]]
  /\ seq = NullSeq
  /\ res = <<>>
  /\ err = "none"

CallNormalize ==
  /\ call.op = "args"
  /\ call' = [call EXCEPT !.op = "tinstantarr_normalize"]
  /\ res' = <<tinstantarr_normalize(call.args.instants, call.args.linear)>>
  /\ UNCHANGED <<seq, err>>

\* the output is normalized again
CallNormalizeAgain ==
  /\ call.op = "tinstantarr_normalize"
  /\ Len(res) = 1
  /\ res' = Append(res, tinstantarr_normalize(res[1], call.args.linear))
  /\ UNCHANGED <<seq, err, call>>

NextNorm == CallNormalize \/ CallNormalizeAgain

SpecNorm == InitNorm /\ [][NextNorm]_vars

(***************************************************************************)
(* tsequencearr_normalize as a function of its arguments                   *)
(***************************************************************************)
\* the array holds seq and the sequence seq2 that may follow it
InitArrNorm ==
  /\ seq \in MadeSeqs
  /\ call \in [op : {"args"}, args : [seq2 : MadeSeqs]]
  /\ MayFollow(seq, call.args.seq2)
  /\ res = <<>>
  /\ err = "none"

\* res is the array returned by tsequencearr_normalize
CallNormalizeArr ==
  /\ call.op = "args"
  /\ "seq2" \in DOMAIN call.args
  /\ call' = [call EXCEPT !.op = "tsequencearr_normalize"]
  /\ res' = tsequencearr_normalize(<<seq, call.args.seq2>>)
  /\ UNCHANGED <<seq, err>>

NextArrNorm == CallNormalizeArr

SpecArrNorm == InitArrNorm /\ [][NextArrNorm]_vars

(***************************************************************************)
(* tsequence_append_tinstant as a function of its arguments                *)
(***************************************************************************)
InitAppend ==
  /\ seq \in {s \in MadeSeqs : Normalized(s)}
  /\ call \in [op : {"args"}, args : [inst : Instants(FLOAT8OID)]]
  /\ res = <<>>
  /\ err = "none"

\* res[1] is the sequence returned by tsequence_append_tinstant
CallAppend ==
  /\ call.op = "args"
  /\ "inst" \in DOMAIN call.args
  /\ \E r \in {tsequence_append_tinstant(seq, call.args.inst)} :
       /\ call' = [call EXCEPT !.op = "tsequence_append_tinstant"]
       /\ res' = <<r.val>>
       /\ err' = r.err
       /\ UNCHANGED seq

NextAppend == CallAppend

SpecAppend == InitAppend /\ [][NextAppend]_vars

(***************************************************************************)
(* The operations that expand a bounding box: tsequence_join, as called by *)
(* tsequencearr_normalize, and tsequence_append_tinstant                   *)
(***************************************************************************)
InitBox == InitArrNorm \/ InitAppend

NextBox == CallNormalizeArr \/ CallAppend

SpecBox == InitBox /\ [][NextBox]_vars

(***************************************************************************)
(* tsequence_value_at_timestamp as a function of its arguments             *)
(***************************************************************************)
InitValueAt ==
  /\ seq \in MadeSeqs
  /\ call \in [op : {"args"}, args : [t : Times]]
  /\ res = <<>>
  /\ err = "none"

CallValueAt ==
  /\ call.op = "args"
  /\ call' = [call EXCEPT !.op = "tsequence_value_at_timestamp"]
  /\ res' = <<tsequence_value_at_timestamp(seq, call.args.t)>>
  /\ err' = tsequence_value_at_timestamp(seq, call.args.t).err
  /\ UNCHANGED seq

NextValueAt == CallValueAt

SpecValueAt == InitValueAt /\ [][NextValueAt]_vars

(***************************************************************************)
(* synchronize_tsequence_tsequence as a function of its arguments          *)
(***************************************************************************)
\* seq is seq1; seq2 has at most two instants
InitSync ==
  /\ seq \in MadeSeqs
  /\ call \in [op : {"args"},
               args : [seq2 : {s \in MadeSeqs : s.count <= 2},
                       crossings : BOOLEAN]]
  /\ res = <<>>
  /\ err = "none"

\* res is <<sync1, sync2>> when the function returns true
CallSynchronize ==
  \E r \in {synchronize_tsequence_tsequence(seq, call.args.seq2,
                                            call.args.crossings)} :
    /\ call.op = "args"
    /\ call' = [call EXCEPT !.op = "synchronize_tsequence_tsequence"]
    /\ res' = IF r.found THEN <<r.sync1, r.sync2>> ELSE <<>>
    /\ err' = r.err
    /\ UNCHANGED seq

NextSync == CallSynchronize

SpecSync == InitSync /\ [][NextSync]_vars

(***************************************************************************)
(* The crossing functions as functions of their arguments                  *)
(***************************************************************************)
\* two synchronized segments (same start and end timestamps), of which one at
\* least is linear, and a base value
InterArgs ==
  {a \in [start1 : Instants(FLOAT8OID), end1 : Instants(FLOAT8OID),
          start2 : Instants(FLOAT8OID), end2 : Instants(FLOAT8OID),
          linear1 : BOOLEAN, linear2 : BOOLEAN, value : Values] :
     /\ a.start1.t < a.end1.t
     /\ a.start2.t = a.start1.t
     /\ a.end2.t = a.end1.t
     /\ (a.linear1 \/ a.linear2)}

InitInter ==
  /\ call \in [op : {"args"}, args : InterArgs]
  /\ seq = NullSeq
  /\ res = <<>>
  /\ err = "none"

\* the first segment, taken as linear, against the value
CallIntersectionValue ==
  /\ call.op = "args"
  /\ call.args.linear1
  /\ call' = [call EXCEPT !.op = "tlinearseq_intersection_value"]
  /\ res' = <<tlinearseq_intersection_value(call.args.start1, call.args.end1,
                                            call.args.value)>>
  /\ UNCHANGED <<seq, err>>

\* the two segments against each other
CallIntersection ==
  /\ call.op = "args"
  /\ call' = [call EXCEPT !.op = "tsequence_intersection"]
  /\ res' = <<tsequence_intersection(call.args.start1, call.args.end1,
                                     call.args.linear1, call.args.start2,
                                     call.args.end2, call.args.linear2)>>
  /\ UNCHANGED <<seq, err>>

NextInter == CallIntersectionValue \/ CallIntersection

SpecInter == InitInter /\ [][NextInter]_vars

(***************************************************************************)
(* tsequence_find_timestamp as a function of its arguments                 *)
(***************************************************************************)
\* the timestamps of a set in increasing order
RECURSIVE SortedTimes(_)
SortedTimes(T) ==
  IF T = {} THEN <<>>
  ELSE LET first == CHOOSE t \in T : \A u \in T : t <= u
       IN  <<first>> \o SortedTimes(T \ {first})

\* sequences of 2 .. FindMaxT + 1 instants at the timestamps of a set
FindSeqs ==
  {tsequence_make([i \in 1..Cardinality(T) |->
                     tinstant_make(IntRat(0), SortedTimes(T)[i], FLOAT8OID)],
                  li, ui, linear, FALSE).val :
     T \in {S \in SUBSET (0..FindMaxT) : Cardinality(S) >= 2},
     li \in BOOLEAN, ui \in BOOLEAN, linear \in BOOLEAN}

InitFind ==
  /\ seq \in FindSeqs
  /\ call \in [op : {"args"}, args : [t : 0..FindMaxT]]
  /\ res = <<>>
  /\ err = "none"

\* res[1] is the index returned by tsequence_find_timestamp
CallFindTimestamp ==
  /\ call.op = "args"
  /\ call' = [call EXCEPT !.op = "tsequence_find_timestamp"]
  /\ res' = <<tsequence_find_timestamp(seq, call.args.t)>>
  /\ UNCHANGED <<seq, err>>

NextFind == CallFindTimestamp

SpecFind == InitFind /\ [][NextFind]_vars

(***************************************************************************)
(* tsequence_at_value and tsequence_minus_value on the same arguments      *)
(***************************************************************************)
InitRestrict ==
  /\ seq \in MadeSeqs
  /\ call \in [op : {"args"}, args : [value : Values]]
  /\ res = <<>>
  /\ err = "none"

\* res[1] is the array returned by tsequence_at_value
CallAtValue ==
  /\ call.op = "args"
  /\ "value" \in DOMAIN call.args
  /\ \E r \in {tsequence_at_value(seq, call.args.value)} :
       /\ call' = [call EXCEPT !.op = "tsequence_at_value"]
       /\ res' = <<r.val>>
       /\ err' = r.err
       /\ UNCHANGED seq

\* res[2] is the array returned by tsequence_minus_value
CallMinusValue ==
  \E r \in {tsequence_minus_value(seq, call.args.value)} :
    /\ call.op = "tsequence_at_value"
    /\ err = "none"
    /\ call' = [call EXCEPT !.op = "tsequence_minus_value"]
    /\ res' = Append(res, r.val)
    /\ err' = r.err
    /\ UNCHANGED seq

NextRestrict == CallAtValue \/ CallMinusValue

SpecRestrict == InitRestrict /\ [][NextRestrict]_vars

(***************************************************************************)
(* tsequence_at_timestamp and tsequence_minus_timestamp1 on the same       *)
(* arguments                                                               *)
(***************************************************************************)
InitTimestamp ==
  /\ seq \in MadeSeqs
  /\ call \in [op : {"args"}, args : [t : Times]]
  /\ res = <<>>
  /\ err = "none"

\* res[1] holds the instant returned by tsequence_at_timestamp, if any
CallAtTimestamp ==
  /\ call.op = "args"
  /\ "t" \in DOMAIN call.args
  /\ \E r \in {tsequence_at_timestamp(seq, call.args.t)} :
       /\ call' = [call EXCEPT !.op = "tsequence_at_timestamp"]
       /\ res' = <<IF r.found THEN <<r.inst>> ELSE <<>>>>
       /\ err' = r.err
       /\ UNCHANGED seq

\* res[2] is the array filled by tsequence_minus_timestamp1
CallMinusTimestamp ==
  /\ call.op = "tsequence_at_timestamp"
  /\ err = "none"
  /\ \E r \in {tsequence_minus_timestamp1(seq, call.args.t)} :
       /\ call' = [call EXCEPT !.op = "tsequence_minus_timestamp1"]
       /\ res' = Append(res, r.val)
       /\ err' = r.err
       /\ UNCHANGED seq

NextTimestamp == CallAtTimestamp \/ CallMinusTimestamp

SpecTimestamp == InitTimestamp /\ [][NextTimestamp]_vars

(***************************************************************************)
(* tsequence_at_timestampset and tsequence_minus_timestampset1 on the same *)
(* arguments                                                               *)
(***************************************************************************)
\* the timestamp sets over the timestamps of the model
TimestampSets ==
  {ts \in UNION {[1..n -> Times] : n \in 1..(MaxT + 1)} :
     \A i \in 1..(Len(ts) - 1) : ts[i] < ts[i + 1]}

InitTimestampSet ==
  /\ seq \in MadeSeqs
  /\ call \in [op : {"args"}, args : [ts : TimestampSets]]
  /\ res = <<>>
  /\ err = "none"

\* res[1] holds the instants of the instant set returned
CallAtTimestampSet ==
  /\ call.op = "args"
  /\ "ts" \in DOMAIN call.args
  /\ \E r \in {tsequence_at_timestampset(seq, call.args.ts)} :
       /\ call' = [call EXCEPT !.op = "tsequence_at_timestampset"]
       /\ res' = <<r.val>>
       /\ err' = r.err
       /\ UNCHANGED seq

\* res[2] is the array filled by tsequence_minus_timestampset1
CallMinusTimestampSet ==
  /\ call.op = "tsequence_at_timestampset"
  /\ err = "none"
  /\ \E r \in {tsequence_minus_timestampset1(seq, call.args.ts)} :
       /\ call' = [call EXCEPT !.op = "tsequence_minus_timestampset1"]
       /\ res' = Append(res, r.val)
       /\ err' = r.err
       /\ UNCHANGED seq

NextTimestampSet == CallAtTimestampSet \/ CallMinusTimestampSet

SpecTimestampSet == InitTimestampSet /\ [][NextTimestampSet]_vars

(***************************************************************************)
(* The restrictions to a period and to a period set on the same arguments  *)
(***************************************************************************)
Periods ==
  {p \in [lower : Times, upper : Times, lower_inc : BOOLEAN,
          upper_inc : BOOLEAN] :
     p.lower < p.upper \/ (p.lower = p.upper /\ p.lower_inc /\ p.upper_inc)}

\* the period sets: each period ends before the next one starts, and two
\* periods that touch are both exclusive there
PeriodSets ==
  {ps \in UNION {[1..n -> Periods] : n \in 1..(MaxT + 1)} :
     \A i \in 1..(Len(ps) - 1) :
       \/ ps[i].upper < ps[i + 1].lower
       \/ (ps[i].upper = ps[i + 1].lower
            /\ ~ps[i].upper_inc /\ ~ps[i + 1].lower_inc)}

\* clobbered: the build clobbers the memory that pfree releases
InitPeriod ==
  /\ seq \in MadeSeqs
  /\ call \in [op : {"args"}, args : [p : Periods] \cup [ps : PeriodSets],
               clobbered : BOOLEAN]
  /\ res = <<>>
  /\ err = "none"

\* res[1] holds the sequence returned by tsequence_at_period, if any
CallAtPeriod ==
  /\ call.op = "args"
  /\ "p" \in DOMAIN call.args
  /\ \E r \in {tsequence_at_period(seq, call.args.p)} :
       /\ call' = [call EXCEPT !.op = "tsequence_at_period"]
       /\ res' = <<IF r.some THEN <<r.val>> ELSE <<>>>>
       /\ err' = r.err
       /\ UNCHANGED seq

\* res[2] holds the count returned by tsequence_minus_period1 and the
\* sequences it has stored in the array
CallMinusPeriod ==
  /\ call.op = "tsequence_at_period"
  /\ err = "none"
  /\ \E r \in {tsequence_minus_period1(seq, call.args.p, call.clobbered)} :
       /\ call' = [call EXCEPT !.op = "tsequence_minus_period1"]
       /\ res' = Append(res, [count |-> r.count, sequences |-> r.val])
       /\ err' = r.err
       /\ UNCHANGED seq

\* res[1] is the array filled by tsequence_at_periodset
CallAtPeriodSet ==
  /\ call.op = "args"
  /\ "ps" \in DOMAIN call.args
  /\ \E r \in {tsequence_at_periodset(seq, call.args.ps)} :
       /\ call' = [call EXCEPT !.op = "tsequence_at_periodset"]
       /\ res' = <<r.val>>
       /\ err' = r.err
       /\ UNCHANGED seq

\* res[2] is the array filled by tsequence_minus_periodset, called from the
\* first period as tsequence_restrict_periodset does
CallMinusPeriodSet ==
  /\ call.op = "tsequence_at_periodset"
  /\ err = "none"
  /\ \E r \in {tsequence_minus_periodset(seq, call.args.ps, 0, call.clobbered)} :
       /\ call' = [call EXCEPT !.op = "tsequence_minus_periodset"]
       /\ res' = Append(res, r.val)
       /\ err' = r.err
       /\ UNCHANGED seq

NextPeriod ==
  CallAtPeriod \/ CallMinusPeriod \/ CallAtPeriodSet \/ CallMinusPeriodSet

SpecPeriod == InitPeriod /\ [][NextPeriod]_vars

(***************************************************************************)
(* The restrictions in time on sequences that span the timestamps          *)
(* 0 .. TimeMaxT, so that a timestamp or the bound of a period may fall    *)
(* inside a segment of a sequence of three instants                        *)
(***************************************************************************)
TimeTimes == 0..TimeMaxT

\* the arguments of tsequence_make for runs of instants from 0 to TimeMaxT
TimeArgs ==
  [instants : {r \in UNION {[1..n -> {tinstant_make(v, t, FLOAT8OID) :
                                        v \in Values, t \in TimeTimes}]
                              : n \in 2..MaxCount} :
                 /\ ensure_valid_tinstantarr(r)
                 /\ r[1].t = 0 /\ r[Len(r)].t = TimeMaxT},
   lower_inc : BOOLEAN, upper_inc : BOOLEAN, linear : BOOLEAN,
   normalize : {TRUE}]

\* normalized sequences from 0 to TimeMaxT
TimeSeqs ==
  {s \in {MakeOf(a).val : a \in {x \in TimeArgs : MakeOf(x).err = "none"}} :
     Normalized(s)}

TimeTimestampSets ==
  {ts \in UNION {[1..n -> TimeTimes] : n \in 1..2} :
     \A i \in 1..(Len(ts) - 1) : ts[i] < ts[i + 1]}

TimePeriods ==
  {p \in [lower : TimeTimes, upper : TimeTimes, lower_inc : BOOLEAN,
          upper_inc : BOOLEAN] :
     p.lower < p.upper \/ (p.lower = p.upper /\ p.lower_inc /\ p.upper_inc)}

TimePeriodSets ==
  {ps \in UNION {[1..n -> TimePeriods] : n \in 1..2} :
     \A i \in 1..(Len(ps) - 1) :
       \/ ps[i].upper < ps[i + 1].lower
       \/ (ps[i].upper = ps[i + 1].lower
            /\ ~ps[i].upper_inc /\ ~ps[i + 1].lower_inc)}

InitTime ==
  /\ seq \in TimeSeqs
  /\ call \in [op : {"args"},
               args : [t : TimeTimes] \cup [ts : TimeTimestampSets]
                        \cup [p : TimePeriods] \cup [ps : TimePeriodSets],
               clobbered : BOOLEAN]
  /\ res = <<>>
  /\ err = "none"

NextTime ==
  \/ CallAtTimestamp
  \/ CallMinusTimestamp
  \/ CallAtTimestampSet
  \/ CallMinusTimestampSet
  \/ CallAtPeriod
  \/ CallMinusPeriod
  \/ CallAtPeriodSet
  \/ CallMinusPeriodSet

SpecTime == InitTime /\ [][NextTime]_vars

(***************************************************************************)
(* The at-forms of tnumberseq_restrict_range1 and                          *)
(* tnumberseq_restrict_ranges1 as functions of their arguments             *)
(***************************************************************************)
\* the ranges of the model: the bounds are values of the model, a range of
\* one value includes it
Ranges ==
  {range_make(lo, up, li, ui) : <<lo, up, li, ui>> \in
     {x \in Values \X Values \X BOOLEAN \X BOOLEAN :
        RLt(x[1], x[2]) \/ (x[1] = x[2] /\ x[3] /\ x[4])}}

\* the second range starts after the first one ends, and they do not touch
RangeBefore(r1, r2) ==
  \/ RLt(r1.upper, r2.lower)
  \/ (r1.upper = r2.lower /\ ~r1.upper_inc /\ ~r2.lower_inc)

\* the normalized arrays of ranges of the model
RangeArrays ==
  {<<r>> : r \in Ranges}
    \cup {rr \in Ranges \X Ranges : RangeBefore(rr[1], rr[2])}

InitRange ==
  /\ seq \in MadeSeqs
  /\ call \in [op : {"args"}, args : [range : Ranges] \cup [ranges : RangeArrays]]
  /\ res = <<>>
  /\ err = "none"

\* res[1] is the array returned by tnumberseq_restrict_range1
CallRestrictRange1 ==
  /\ call.op = "args"
  /\ "range" \in DOMAIN call.args
  /\ \E r \in {RestrictRange1At(seq, call.args.range)} :
       /\ call' = [call EXCEPT !.op = "tnumberseq_restrict_range1"]
       /\ res' = <<r.val>>
       /\ err' = r.err
       /\ UNCHANGED seq

\* res[1] is the array returned by tnumberseq_restrict_ranges1
CallRestrictRanges1 ==
  /\ call.op = "args"
  /\ "ranges" \in DOMAIN call.args
  /\ \E r \in {RestrictRanges1At(seq, call.args.ranges)} :
       /\ call' = [call EXCEPT !.op = "tnumberseq_restrict_ranges1"]
       /\ res' = <<r.val>>
       /\ err' = r.err
       /\ UNCHANGED seq

NextRange == CallRestrictRange1 \/ CallRestrictRanges1

SpecRange == InitRange /\ [][NextRange]_vars

(***************************************************************************)
(* The operations on their inputs: seq and call.args are the memory of the *)
(* inputs of the caller, before and after the call                         *)
(***************************************************************************)
\* the contents of a slot of the buffer that was never written, of a read
\* past the end of the array, and the fate of a write past the end of the
\* buffer
Junks ==
  [inst : {NoInstant} \cup {tinstant_make(IntRat(0), t, FLOAT8OID) : t \in Times},
   flag : {"invalid", "true", "false"}, slack : BOOLEAN]

\* the sequences of the arrays given to tsequence_merge_array: one or two
\* instants with values 0 and 1
MergeSeqs ==
  {s \in MadeSeqs :
     /\ s.count <= 2
     /\ \A i \in 1..s.count : s.instants[i].value \in {IntRat(0), IntRat(1)}}

\* arrays of one or two sequences, in any order
MergeArrays == {<<s>> : s \in MergeSeqs} \cup (MergeSeqs \X MergeSeqs)

\* temporal integers: the step sequences cast to integers
IntSeqs == {tfloatseq_to_tintseq(s).val : s \in {x \in MadeSeqs : ~x.linear}}

InitFrame ==
  \/ InitArrNorm
  \/ InitAppend
  \/ InitRestrict
  \/ /\ seq \in MadeSeqs
     /\ call \in [op : {"args"}, args : [interval : (-MaxT..MaxT) \ {0}]]
     /\ res = <<>>
     /\ err = "none"
  \/ /\ seq \in MadeSeqs \cup IntSeqs
     /\ call = [op |-> "args", args |-> [cast |-> TRUE]]
     /\ res = <<>>
     /\ err = "none"
  \/ /\ call \in [op : {"args"}, args : [sequences : MergeArrays]]
     /\ seq = call.args.sequences[1]
     /\ res = <<>>
     /\ err = "none"

\* res[1] is the sequence returned by tsequence_shift
CallShift ==
  /\ call.op = "args"
  /\ "interval" \in DOMAIN call.args
  /\ call' = [call EXCEPT !.op = "tsequence_shift"]
  /\ res' = <<tsequence_shift(seq, call.args.interval)>>
  /\ UNCHANGED <<seq, err>>

\* res[1] is the sequence returned by tintseq_to_tfloatseq
CallIntToFloat ==
  /\ call.op = "args"
  /\ "cast" \in DOMAIN call.args
  /\ seq.valuetypid = INT4OID
  /\ call' = [call EXCEPT !.op = "tintseq_to_tfloatseq"]
  /\ res' = <<tintseq_to_tfloatseq(seq)>>
  /\ UNCHANGED <<seq, err>>

\* res[1] is the sequence returned by tfloatseq_to_tintseq
CallFloatToInt ==
  /\ call.op = "args"
  /\ "cast" \in DOMAIN call.args
  /\ seq.valuetypid = FLOAT8OID
  /\ \E r \in {tfloatseq_to_tintseq(seq)} :
       /\ call' = [call EXCEPT !.op = "tfloatseq_to_tintseq"]
       /\ res' = <<r.val>>
       /\ err' = r.err
       /\ UNCHANGED seq

\* res is the array of the sequences of the value returned by
\* tsequence_merge_array, which has sorted the array of the caller
CallMergeArray ==
  /\ call.op = "args"
  /\ "sequences" \in DOMAIN call.args
  /\ \E junk \in Junks :
       \E r \in {tsequence_merge_array(call.args.sequences, junk)} :
         /\ call' = [op |-> "tsequence_merge_array",
                     args |-> [sequences |-> r.sequences]]
         /\ res' = r.val
         /\ err' = r.err
         /\ UNCHANGED seq

NextFrame ==
  \/ CallShift
  \/ CallIntToFloat
  \/ CallFloatToInt
  \/ CallNormalizeArr
  \/ CallAppend
  \/ CallAtValue
  \/ CallMergeArray

SpecFrame == InitFrame /\ [][NextFrame]_vars

(***************************************************************************)
(* tsequence_eq and tsequence_cmp as functions of their arguments          *)
(***************************************************************************)
\* the sequences compared: values 0 and 1, made by tsequence_make or by
\* tsequence_append_tinstant
CmpArgs ==
  [instants : UNION {[1..n -> {tinstant_make(v, t, FLOAT8OID) :
                                 v \in {IntRat(0), IntRat(1)}, t \in Times}]
                       : n \in 1..MaxCount},
   lower_inc : BOOLEAN, upper_inc : BOOLEAN, linear : BOOLEAN,
   normalize : BOOLEAN]

CmpMade == {MakeOf(a).val : a \in {x \in CmpArgs : MakeOf(x).err = "none"}}

CmpAppended ==
  {tsequence_append_tinstant(s, tinstant_make(v, MaxT, FLOAT8OID)).val :
     s \in {x \in CmpMade : x.period.upper < MaxT}, v \in {IntRat(0), IntRat(1)}}

CmpSeqs == CmpMade \cup {s \in CmpAppended : s.count > 0}

InitCmp ==
  /\ seq \in CmpSeqs
  /\ call \in [op : {"args"}, args : [seq2 : CmpSeqs]]
  /\ res = <<>>
  /\ err = "none"

\* res[1] is the result of tsequence_eq
CallEq ==
  /\ call.op = "args"
  /\ call' = [call EXCEPT !.op = "tsequence_eq"]
  /\ res' = <<tsequence_eq(seq, call.args.seq2)>>
  /\ UNCHANGED <<seq, err>>

\* res[1] is the result of tsequence_cmp
CallCmp ==
  /\ call.op = "args"
  /\ call' = [call EXCEPT !.op = "tsequence_cmp"]
  /\ res' = <<tsequence_cmp(seq, call.args.seq2)>>
  /\ UNCHANGED <<seq, err>>

NextCmp == CallEq \/ CallCmp

SpecCmp == InitCmp /\ [][NextCmp]_vars

(***************************************************************************)
(* tsequence_write, then tsequence_read on the bytes written               *)
(***************************************************************************)
InitWire ==
  /\ seq \in MadeSeqs
  /\ call = [op |-> "args", args |-> [buf |-> <<>>]]
  /\ res = <<>>
  /\ err = "none"

\* call.args.buf is the buffer after tsequence_write
CallWrite ==
  /\ call.op = "args"
  /\ call' = [op |-> "tsequence_write", args |-> [buf |-> tsequence_write(seq)]]
  /\ UNCHANGED <<seq, res, err>>

\* res[1] is the sequence returned by tsequence_read
CallRead ==
  /\ call.op = "tsequence_write"
  /\ \E r \in {tsequence_read(call.args.buf, seq.valuetypid)} :
       /\ res' = <<r.val>>
       /\ err' = r.err
  /\ call' = [call EXCEPT !.op = "tsequence_read"]
  /\ UNCHANGED seq

NextWire == CallWrite \/ CallRead

SpecWire == InitWire /\ [][NextWire]_vars

(***************************************************************************)
(* tsequence_merge_array as a function of its arguments                    *)
(***************************************************************************)
InitMerge ==
  /\ call \in [op : {"args"}, args : [sequences : MergeArrays]]
  /\ seq = call.args.sequences[1]
  /\ res = <<>>
  /\ err = "none"

NextMerge == CallMergeArray

SpecMerge == InitMerge /\ [][NextMerge]_vars

(***************************************************************************)
(* tsequence_always_lt as a function of its arguments                      *)
(***************************************************************************)
\* the base values: the values of the instants and one value above them
AlwaysValues == {IntRat(v) : v \in 0..(MaxVal + 1)}

InitAlways ==
  /\ call \in [op : {"args"}, args : [value : AlwaysValues]]
  /\ seq \in MadeSeqs
  /\ res = <<>>
  /\ err = "none"

CallAlwaysLt ==
  /\ call.op = "args"
  /\ call' = [call EXCEPT !.op = "tsequence_always_lt"]
  /\ res' = <<tsequence_always_lt(seq, call.args.value)>>
  /\ UNCHANGED <<seq, err>>

NextAlways == CallAlwaysLt

SpecAlways == InitAlways /\ [][NextAlways]_vars

(***************************************************************************)
(* tfloatseq_range as a function of its argument                           *)
(***************************************************************************)
\* float sequences with linear interpolation, as tsequence_make returns them
RangeSeqs == {s \in MadeSeqs : s.linear}

InitValueRange ==
  /\ call = [op |-> "args", args |-> <<>>]
  /\ seq \in RangeSeqs
  /\ res = <<>>
  /\ err = "none"

CallFloatRange ==
  /\ call.op = "args"
  /\ call' = [call EXCEPT !.op = "tfloatseq_range"]
  /\ res' = <<tfloatseq_range(seq)>>
  /\ UNCHANGED <<seq, err>>

NextValueRange == CallFloatRange

SpecValueRange == InitValueRange /\ [][NextValueRange]_vars

(***************************************************************************)
(* tstepseq_to_linear as a function of its argument                        *)
(***************************************************************************)
\* sequences with stepwise interpolation, as tsequence_make returns them
StepSeqs == {s \in MadeSeqs : ~s.linear}

InitToLinear ==
  /\ call = [op |-> "args", args |-> <<>>]
  /\ seq \in StepSeqs
  /\ res = <<>>
  /\ err = "none"

CallStepToLinear ==
  /\ call.op = "args"
  /\ call' = [call EXCEPT !.op = "tstepseq_to_linear"]
  /\ res' = tstepseq_to_linear(seq).val
  /\ err' = tstepseq_to_linear(seq).err
  /\ UNCHANGED seq

NextToLinear == CallStepToLinear

SpecToLinear == InitToLinear /\ [][NextToLinear]_vars

(***************************************************************************)
(* The layouts built by tsequence_make, tsequence_join and                 *)
(* tsequence_append_tinstant                                               *)
(***************************************************************************)
\* VARSIZE of an instant, of a trajectory, and the base types: without
\* bounding box, with a bounding box, and point types with a bounding box
\* and a precomputed trajectory
InstantSizes == {20, 24}
TrajSizes == {28, 32}
LayoutTypes ==
  {[isgeo |-> FALSE, hastraj |-> FALSE, bboxsize |-> b] : b \in {0, 20, 24}}
    \cup {[isgeo |-> TRUE, hastraj |-> TRUE, bboxsize |-> b] : b \in {20, 24}}
SizeArrays == UNION {[1..n -> InstantSizes] : n \in 1..MaxCount}

LayoutArgs ==
  {a \in [sizes : SizeArrays, sizes2 : SizeArrays, instsize : InstantSizes,
          typ : LayoutTypes, trajsize : TrajSizes, first : BOOLEAN,
          last : BOOLEAN] :
     /\ a.last => Len(a.sizes) > 1
     /\ a.first => Len(a.sizes2) > 1}

InitLayout ==
  /\ call \in [op : {"args"}, args : LayoutArgs]
  /\ seq = NullSeq
  /\ res = <<>>
  /\ err = "none"

CallMakeLayout ==
  /\ call.op = "args"
  /\ call' = [call EXCEPT !.op = "tsequence_make"]
  /\ res' = <<MakeLayout(call.args.sizes, call.args.typ, call.args.trajsize)>>
  /\ UNCHANGED <<seq, err>>

CallJoinLayout ==
  /\ call.op = "args"
  /\ call' = [call EXCEPT !.op = "tsequence_join"]
  /\ res' = <<JoinLayout(call.args.sizes, call.args.sizes2, call.args.last,
                         call.args.first, call.args.typ, call.args.trajsize)>>
  /\ UNCHANGED <<seq, err>>

CallAppendLayout ==
  /\ call.op = "args"
  /\ call' = [call EXCEPT !.op = "tsequence_append_tinstant"]
  /\ res' = <<AppendLayout(call.args.sizes, call.args.instsize, call.args.last,
                           call.args.typ, call.args.trajsize)>>
  /\ UNCHANGED <<seq, err>>

NextLayout == CallMakeLayout \/ CallJoinLayout \/ CallAppendLayout

SpecLayout == InitLayout /\ [][NextLayout]_vars

(***************************************************************************)
(* Chains of operations on a sequence                                      *)
(***************************************************************************)
\* sequences of at most two instants that start at timestamp t
SeqsFrom(t) == {s \in MadeSeqs : s.count <= 2 /\ s.period.lower = t}

\* sequences of two instants that span all the timestamps of the model and
\* start at value 0
SpanSeqs ==
  {s \in MadeSeqs : /\ s.count = 2 /\ s.period.lower = 0 /\ s.period.upper = MaxT
                    /\ s.instants[1].value = IntRat(0)}

Op(name) == [op |-> name]

\* the chain goes on with sequences of the size and values of the inputs
InModel(s) ==
  /\ s.count <= MaxCount
  /\ \A i \in 1..Len(s.instants) : s.instants[i].value \in Values

\* a chain starts from a made sequence of at most two instants; longer ones
\* are built by tsequence_append_tinstant
InitChain ==
  /\ seq \in {s \in MadeSeqs : s.count <= 2}
  /\ res = <<>>
  /\ err = "none"
  /\ call = Op("tsequence_make")

AppendInstant ==
  \E inst \in Instants(seq.valuetypid) :
    \E m \in {tsequence_append_tinstant(seq, inst)} :
        /\ call.op = "idle"
        /\ InModel(m.val)
        /\ seq' = IF m.err = "none" THEN m.val ELSE seq
        /\ err' = m.err
        /\ res' = <<>>
        /\ call' = Op("tsequence_append_tinstant")

Shift ==
  \E interval \in (-MaxT..MaxT) \ {0} :
    /\ call.op = "idle"
    /\ seq.period.lower + interval >= 0
    /\ seq.period.upper + interval <= MaxT
    /\ seq' = tsequence_shift(seq, interval)
    /\ err' = "none"
    /\ res' = <<>>
    /\ call' = Op("tsequence_shift")

AtValue ==
  \E value \in Values :
    \E r \in {tsequence_at_value(seq, value)} :
        /\ call.op = "idle"
        /\ res' = r.val
        /\ err' = r.err
        /\ call' = Op("tsequence_at_value")
        /\ UNCHANGED seq

MinusValue ==
  \E value \in Values :
    \E r \in {tsequence_minus_value(seq, value)} :
        /\ call.op = "idle"
        /\ res' = r.val
        /\ err' = r.err
        /\ call' = Op("tsequence_minus_value")
        /\ UNCHANGED seq

\* the caller goes on with one of the returned sequences
TakePiece ==
  \E i \in 1..Len(res) :
    /\ InModel(res[i])
    /\ seq' = res[i]
    /\ res' = <<>>
    /\ err' = "none"
    /\ call' = Op("idle")

\* the call returns: the caller frees the returned sequences and goes on
\* with seq
Return ==
  /\ call.op # "idle"
  /\ res' = <<>>
  /\ err' = "none"
  /\ call' = Op("idle")
  /\ UNCHANGED seq

\* the pieces of a restriction are normalized as an array
NormalizePieces ==
  /\ call.op \in {"tsequence_at_value", "tsequence_minus_value"}
  /\ Len(res) > 0
  /\ \A i \in 1..Len(res) : Normalized(res[i])
  /\ res' = tsequencearr_normalize(res)
  /\ err' = "none"
  /\ call' = Op("tsequencearr_normalize")
  /\ UNCHANGED seq

\* the sequence is normalized together with a sequence that follows it
NormalizeWith ==
  \E seq2 \in SeqsFrom(seq.period.upper) :
    /\ call.op = "idle"
    /\ MayFollow(seq, seq2)
    /\ res' = tsequencearr_normalize(<<seq, seq2>>)
    /\ err' = "none"
    /\ call' = Op("tsequencearr_normalize")
    /\ UNCHANGED seq

Synchronize ==
  \E seq2 \in SpanSeqs, crossings \in BOOLEAN :
    \E r \in {synchronize_tsequence_tsequence(seq, seq2, crossings)} :
        /\ call.op = "idle"
        /\ seq2.valuetypid = seq.valuetypid
        /\ res' = IF r.found THEN <<r.sync1, r.sync2>> ELSE <<>>
        /\ err' = r.err
        /\ call' = Op("synchronize_tsequence_tsequence")
        /\ UNCHANGED seq

Next ==
  \/ AppendInstant
  \/ Shift
  \/ AtValue
  \/ MinusValue
  \/ TakePiece
  \/ Return
  \/ NormalizePieces
  \/ NormalizeWith
  \/ Synchronize

Spec == InitChain /\ [][Next]_vars

(***************************************************************************)
(* C1: structural invariants of every sequence of a chain                  *)
(***************************************************************************)
StructuralInvariants(s) ==
  /\ s.count >= 1
  /\ s.count = Len(s.instants)
  /\ \A i \in 1..(Len(s.instants) - 1) : s.instants[i].t < s.instants[i + 1].t
  /\ s.period.lower = s.instants[1].t
  /\ s.period.upper = s.instants[Len(s.instants)].t
  /\ (s.count = 1 => s.period.lower_inc /\ s.period.upper_inc)
  /\ (~s.linear /\ ~s.period.upper_inc /\ s.count >= 2
        => s.instants[s.count].value = s.instants[s.count - 1].value)

\* C1: every sequence reachable by a chain of make, append, shift, at/minus
\* value, array normalization (join) and synchronization has count >= 1,
\* increasing timestamps, a period bounded by its first and last instants,
\* inclusive bounds when instantaneous, and equal last two values when it is
\* a step sequence with exclusive upper bound.
C1_StructuralInvariants ==
  /\ StructuralInvariants(seq)
  /\ \A i \in 1..Len(res) : StructuralInvariants(res[i])

(***************************************************************************)
(* C2, C10: restriction to a base value, as sets of times                  *)
(***************************************************************************)
\* the time x (a rational) belongs to the period p
InPeriodAt(p, x) ==
  \/ (RLt(IntRat(p.lower), x) /\ RLt(x, IntRat(p.upper)))
  \/ (x = IntRat(p.lower) /\ p.lower_inc)
  \/ (x = IntRat(p.upper) /\ p.upper_inc)

\* some sequence of the array covers the time x
Covered(sequences, x) ==
  \E i \in 1..Len(sequences) : InPeriodAt(sequences[i].period, x)

\* the value the sequence s takes at the time x of its period: the value of
\* the instant at x, else the value of the segment around x
ValueAtTime(s, x) ==
  IF \E j \in 1..s.count : IntRat(s.instants[j].t) = x
  THEN s.instants[CHOOSE j \in 1..s.count : IntRat(s.instants[j].t) = x].value
  ELSE LET i == CHOOSE i \in 1..(s.count - 1) :
                  /\ RLt(IntRat(s.instants[i].t), x)
                  /\ RLt(x, IntRat(s.instants[i + 1].t))
           a == s.instants[i]
           b == s.instants[i + 1]
       IN  IF ~s.linear THEN a.value
           ELSE RAdd(a.value,
                     RMul(RSub(b.value, a.value),
                          RDiv(RSub(x, IntRat(a.t)), IntRat(b.t - a.t))))

\* the times at which a linear segment of s crosses the value v
CrossingTimes(s, v) ==
  {RAdd(IntRat(s.instants[i].t),
        RMul(RDiv(RSub(v, s.instants[i].value),
                  RSub(s.instants[i + 1].value, s.instants[i].value)),
             IntRat(s.instants[i + 1].t - s.instants[i].t))) :
     i \in {k \in 1..(s.count - 1) :
              s.linear /\ s.instants[k].value # s.instants[k + 1].value}}

\* the times that tell two sets of times apart when each is made of the
\* timestamps of the model, of crossing times and of intervals between
\* timestamps: the timestamps, the crossing times, and one time inside every
\* interval between two successive timestamps that is no crossing time (the
\* values of a segment differ by MaxVal at most, so that a crossing time
\* is never a timestamp plus 1 / (MaxVal + 1))
ProbeTimes(s, v) ==
  {IntRat(t) : t \in 0..MaxT}
    \cup {Rat(t * (MaxVal + 1) + 1, MaxVal + 1) : t \in 0..(MaxT - 1)}
    \cup CrossingTimes(s, v)

\* C10: the sequences returned by tsequence_at_value cover exactly the times
\* of the period of s at which s takes the value v, and every instant of
\* every returned sequence carries the value v.
C10_AtValueExact ==
  call.op = "tsequence_at_value" =>
    /\ err = "none"
    /\ \A i \in 1..Len(res[1]) : \A j \in 1..Len(res[1][i].instants) :
         res[1][i].instants[j].value = call.args.value
    /\ \A x \in ProbeTimes(seq, call.args.value) :
         Covered(res[1], x)
           <=> (InPeriodAt(seq.period, x)
                /\ ValueAtTime(seq, x) = call.args.value)

\* C2: the sequences returned by tsequence_at_value together with those
\* returned by tsequence_minus_value cover exactly the period of s, and no
\* time belongs to a sequence of both.
C2_AtMinusPartition ==
  call.op = "tsequence_minus_value" =>
    /\ err = "none"
    /\ \A x \in ProbeTimes(seq, call.args.value) :
         /\ (InPeriodAt(seq.period, x)
               <=> (Covered(res[1], x) \/ Covered(res[2], x)))
         /\ ~(Covered(res[1], x) /\ Covered(res[2], x))

(***************************************************************************)
(* C3, C4: the normalizer of an array of instants                          *)
(***************************************************************************)
\* C3: normalization is idempotent: tinstantarr_normalize applied to its own
\* output returns exactly the same run of instants.
C3_NormalizeIdempotent ==
  (call.op = "tinstantarr_normalize" /\ Len(res) = 2) => res[2] = res[1]

\* out is a subsequence of in, in the same order
IsSubsequence(out, in) ==
  \E f \in [1..Len(out) -> 1..Len(in)] :
    /\ \A i \in 1..(Len(out) - 1) : f[i] < f[i + 1]
    /\ \A i \in 1..Len(out) : in[f[i]] = out[i]

\* v2 is redundant between v1 and v3 by the rules: step and v1 = v2;
\* v1 = v2 = v3; linear and v2 collinear (within EPSILON) with v1 and v3 at
\* ratio (t2 - t1) / (t3 - t1)
RedundantByRules(linear, i1, i2, i3) ==
  \/ (~linear /\ i1.value = i2.value)
  \/ (i1.value = i2.value /\ i2.value = i3.value)
  \/ (/\ linear
      /\ RLe(RAbs(RSub(i2.value,
                       RAdd(i1.value,
                            RMul(RSub(i3.value, i1.value),
                                 Rat(i2.t - i1.t, i3.t - i1.t))))),
             IntRat(EPSILON)))

\* C4: the output of tinstantarr_normalize is a subsequence of the input in
\* the same order, keeps the first and the last input instant, and contains
\* no three consecutive instants of which the middle one is redundant by the
\* rules.
C4_NormalizeMinimal ==
  (call.op = "tinstantarr_normalize") =>
    LET in == call.args.instants
        out == res[1]
    IN  /\ IsSubsequence(out, in)
        /\ out[1] = in[1]
        /\ out[Len(out)] = in[Len(in)]
        /\ \A i \in 1..(Len(out) - 2) :
             ~RedundantByRules(call.args.linear, out[i], out[i + 1], out[i + 2])

(***************************************************************************)
(* C5: tsequence_make rejects exactly the invalid inputs                   *)
(***************************************************************************)
\* the inputs that must be rejected: timestamps not strictly increasing, one
\* instant with an exclusive bound, or step interpolation with more than one
\* instant, exclusive upper bound and different last two values
InvalidMake(a) ==
  LET n == Len(a.instants)
  IN  \/ \E i \in 1..(n - 1) : a.instants[i].t >= a.instants[i + 1].t
      \/ (n = 1 /\ (~a.lower_inc \/ ~a.upper_inc))
      \/ (/\ ~a.linear /\ n > 1 /\ ~a.upper_inc
          /\ a.instants[n].value # a.instants[n - 1].value)

\* C5: tsequence_make raises an error and produces no value exactly when its
\* input is invalid (timestamps not strictly increasing; count = 1 with an
\* exclusive bound; step, count > 1, exclusive upper bound and different last
\* two values); for every other input it returns a sequence of count >= 1.
C5_MakeRejectsInvalid ==
  call.op = "tsequence_make" =>
    /\ (InvalidMake(call.args) <=> err # "none")
    /\ (err # "none" => seq = NullSeq)
    /\ (err = "none" => seq # NullSeq /\ seq.count >= 1)

\* an instantaneous sequence with an exclusive bound, and nothing else wrong,
\* has been rejected
C5_Witness ==
  /\ call.op = "tsequence_make"
  /\ Len(call.args.instants) = 1
  /\ ~call.args.upper_inc
  /\ err = "Instant sequence must have inclusive bounds"
  /\ seq = NullSeq

(***************************************************************************)
(* C6: evaluation at the timestamp of a stored instant                     *)
(***************************************************************************)
\* the i-th instant of s lies on an exclusive bound of the period of s
OnExclusiveBound(s, i) ==
  \/ (i = 1 /\ ~s.period.lower_inc)
  \/ (i = s.count /\ ~s.period.upper_inc)

\* C6 as stated: for every instant (v, t) stored in the sequence, the
\* evaluation at t finds a value and that value is v.
C6_ValueAtStoredInstant ==
  call.op = "tsequence_value_at_timestamp" =>
    \A i \in 1..seq.count :
      seq.instants[i].t = call.args.t =>
        /\ err = "none"
        /\ res[1].found
        /\ res[1].value = seq.instants[i].value

\* C6 amended: for every instant (v, t) stored in the sequence that does not
\* lie on an exclusive bound of its period, the evaluation at t finds a value
\* and that value is v; for a stored instant on an exclusive bound the
\* evaluation finds no value.
C6_ValueAtStoredInstantInPeriod ==
  call.op = "tsequence_value_at_timestamp" =>
    \A i \in 1..seq.count :
      seq.instants[i].t = call.args.t =>
        /\ err = "none"
        /\ (~OnExclusiveBound(seq, i) =>
              res[1].found /\ res[1].value = seq.instants[i].value)
        /\ (OnExclusiveBound(seq, i) => ~res[1].found)

\* the value of the last instant of a step sequence of three instants with an
\* inclusive upper bound and different last two values has been found
C6_Witness ==
  /\ call.op = "tsequence_value_at_timestamp"
  /\ seq.count = 3
  /\ ~seq.linear
  /\ seq.period.upper_inc
  /\ seq.instants[2].value # seq.instants[3].value
  /\ call.args.t = seq.instants[3].t
  /\ res[1].found
  /\ res[1].value = seq.instants[3].value

(***************************************************************************)
(* C7, C8: synchronization                                                 *)
(***************************************************************************)
\* t belongs to the period p
InPeriod(p, t) ==
  \/ (p.lower < t /\ t < p.upper)
  \/ (t = p.lower /\ p.lower_inc /\ (t < p.upper \/ p.upper_inc))
  \/ (t = p.upper /\ p.upper_inc /\ (p.lower < t \/ p.lower_inc))

\* the periods p1 and p2 have a time in common
PeriodsOverlap(p1, p2) ==
  LET lo == IF p1.lower >= p2.lower THEN p1.lower ELSE p2.lower
      hi == IF p1.upper <= p2.upper THEN p1.upper ELSE p2.upper
  IN  lo < hi \/ (lo = hi /\ InPeriod(p1, lo) /\ InPeriod(p2, lo))

\* the intersection of two periods that overlap
PeriodsIntersection(p1, p2) ==
  [lower |-> IF p1.lower >= p2.lower THEN p1.lower ELSE p2.lower,
   upper |-> IF p1.upper <= p2.upper THEN p1.upper ELSE p2.upper,
   lower_inc |-> IF p1.lower > p2.lower THEN p1.lower_inc
                 ELSE IF p2.lower > p1.lower THEN p2.lower_inc
                 ELSE p1.lower_inc /\ p2.lower_inc,
   upper_inc |-> IF p1.upper < p2.upper THEN p1.upper_inc
                 ELSE IF p2.upper < p1.upper THEN p2.upper_inc
                 ELSE p1.upper_inc /\ p2.upper_inc]

\* C7: whenever synchronize_tsequence_tsequence returns true the two outputs
\* have the same number of instants, the same timestamps position by
\* position, the same bound inclusivity and the intersection of the input
\* periods as period; it returns false exactly when the input periods do not
\* overlap.
C7_SyncAlignment ==
  call.op = "synchronize_tsequence_tsequence" =>
    /\ (Len(res) = 2 =>
          /\ res[1].count = res[2].count
          /\ Len(res[1].instants) = Len(res[2].instants)
          /\ \A i \in 1..Len(res[1].instants) :
               res[1].instants[i].t = res[2].instants[i].t
          /\ res[1].period = res[2].period
          /\ res[1].period = PeriodsIntersection(seq.period,
                                                 call.args.seq2.period))
    /\ ((err = "none" /\ Len(res) = 0)
          <=> ~PeriodsOverlap(seq.period, call.args.seq2.period))

\* two sequences whose periods differ and overlap have been synchronized, and
\* an instant that seq2 does not hold has been added to its output
C7_Witness ==
  /\ call.op = "synchronize_tsequence_tsequence"
  /\ Len(res) = 2
  /\ seq.period # call.args.seq2.period
  /\ res[1].count = 2
  /\ ~(\E i \in 1..call.args.seq2.count :
         call.args.seq2.instants[i] = res[2].instants[1])

\* the limits, at the start and at the end of the segment from instant i to
\* instant i + 1 of s, of the value of s inside the segment
SegmentStart(s, i) == s.instants[i].value
SegmentEnd(s, i) ==
  IF s.linear THEN s.instants[i + 1].value ELSE s.instants[i].value

\* the sign of a - b
OrderOf(a, b) == IF RLt(a, b) THEN -1 ELSE IF RLt(b, a) THEN 1 ELSE 0

\* C8: after synchronization with crossings of two sequences of which one at
\* least is linear, every output instant added at a timestamp that is not a
\* timestamp of an input instant carries equal values on both sides, and
\* between two consecutive output instants the order relation between the
\* values of the two outputs does not change (it is not < at one end of the
\* segment and > at the other).
C8_CrossingInsertion ==
  (/\ call.op = "synchronize_tsequence_tsequence"
   /\ call.args.crossings
   /\ (seq.linear \/ call.args.seq2.linear)
   /\ Len(res) = 2) =>
    /\ \A i \in 1..Len(res[1].instants) :
         (/\ \A j \in 1..seq.count : seq.instants[j].t # res[1].instants[i].t
          /\ \A j \in 1..call.args.seq2.count :
               call.args.seq2.instants[j].t # res[1].instants[i].t)
           => res[1].instants[i].value = res[2].instants[i].value
    /\ \A i \in 1..(Len(res[1].instants) - 1) :
         OrderOf(SegmentStart(res[1], i), SegmentStart(res[2], i))
           * OrderOf(SegmentEnd(res[1], i), SegmentEnd(res[2], i)) # -1

(***************************************************************************)
(* C9: the timestamp of a crossing                                         *)
(***************************************************************************)
\* C9: whenever a crossing function (segment against value, or two
\* synchronized segments) returns true, the timestamp it returns lies
\* strictly inside the segment: start.t < t < end.t.
C9_CrossingStrictlyInside ==
  (/\ call.op \in {"tlinearseq_intersection_value", "tsequence_intersection"}
   /\ res[1].found) =>
    /\ call.args.start1.t < res[1].t
    /\ res[1].t < call.args.end1.t

(***************************************************************************)
(* C11: restriction to a timestamp and to its complement                   *)
(***************************************************************************)
\* the instants of s before and after the timestamp t
InstantsBefore(s, t) == SelectSeq(s.instants, LAMBDA i : i.t < t)
InstantsAfter(s, t) == SelectSeq(s.instants, LAMBDA i : i.t > t)

\* the value s takes just before the timestamp t (t after the start of s):
\* the interpolated value, or for step interpolation the value of the instant
\* before t
ValueBefore(s, t) ==
  IF s.linear THEN ValueAtTime(s, IntRat(t))
  ELSE InstantsBefore(s, t)[Len(InstantsBefore(s, t))].value

\* what the claim looks at in a sequence
PieceView(s) ==
  [period |-> s.period, instants |-> s.instants, count |-> s.count,
   linear |-> s.linear]

\* the pieces of s on the left and on the right of the timestamp t
LeftOf(s, t) ==
  [period |-> [lower |-> s.period.lower, upper |-> t,
               lower_inc |-> s.period.lower_inc, upper_inc |-> FALSE],
   instants |-> Append(InstantsBefore(s, t),
                       tinstant_make(ValueBefore(s, t), t, s.valuetypid)),
   count |-> Len(InstantsBefore(s, t)) + 1,
   linear |-> s.linear]
RightOf(s, t) ==
  [period |-> [lower |-> t, upper |-> s.period.upper,
               lower_inc |-> FALSE, upper_inc |-> s.period.upper_inc],
   instants |-> <<tinstant_make(ValueAtTime(s, IntRat(t)), t, s.valuetypid)>>
                  \o InstantsAfter(s, t),
   count |-> Len(InstantsAfter(s, t)) + 1,
   linear |-> s.linear]

\* C11: for a timestamp t contained in the period of s, with count >= 2,
\* tsequence_minus_timestamp1 returns the left piece iff t is after the start
\* of s and the right piece iff t is before its end, with the bounds and the
\* closing instants of the claim, and tsequence_at_timestamp returns the
\* instant of s at t; for a timestamp not contained in the period, minus
\* returns a copy of s and at returns nothing.
C11_MinusTimestamp ==
  call.op = "tsequence_minus_timestamp1" =>
    /\ err = "none"
    /\ IF ~InPeriod(seq.period, call.args.t)
       THEN res = << <<>>, <<seq>> >>
       ELSE /\ res[1] = <<tinstant_make(ValueAtTime(seq, IntRat(call.args.t)),
                                        call.args.t, seq.valuetypid)>>
            /\ seq.count = 1 => res[2] = <<>>
            /\ seq.count >= 2 =>
                 [i \in 1..Len(res[2]) |-> PieceView(res[2][i])]
                   = (IF seq.period.lower < call.args.t
                      THEN <<LeftOf(seq, call.args.t)>> ELSE <<>>)
                     \o (IF call.args.t < seq.period.upper
                         THEN <<RightOf(seq, call.args.t)>> ELSE <<>>)

\* a sequence has been cut strictly between two of its instants, into two
\* pieces
C11_Witness ==
  /\ call.op = "tsequence_minus_timestamp1"
  /\ err = "none"
  /\ seq.count >= 2
  /\ Len(res[2]) = 2
  /\ \A i \in 1..seq.count : seq.instants[i].t # call.args.t

(***************************************************************************)
(* C12: restriction to a timestamp set and to its complement               *)
(***************************************************************************)
\* the timestamps of the model and the times halfway between them
HalfTimes ==
  {IntRat(t) : t \in 0..MaxT} \cup {Rat(2 * t + 1, 2) : t \in 0..(MaxT - 1)}

\* tsequence_minus_timestamp1 applied to every sequence of an array, and then
\* successively for every timestamp of ts
RECURSIVE MinusTimestampOfAll(_, _)
MinusTimestampOfAll(sequences, t) ==
  IF sequences = <<>> THEN <<>>
  ELSE tsequence_minus_timestamp1(Head(sequences), t).val
         \o MinusTimestampOfAll(Tail(sequences), t)

RECURSIVE MinusTimestamps(_, _)
MinusTimestamps(sequences, ts) ==
  IF ts = <<>> THEN sequences
  ELSE MinusTimestamps(MinusTimestampOfAll(sequences, Head(ts)), Tail(ts))

\* the instants of s at the timestamps of ts contained in the period of s
InstantsAt(s, ts) ==
  LET in == SelectSeq(ts, LAMBDA t : InPeriod(s.period, t))
  IN  [i \in 1..Len(in) |->
         tinstant_make(ValueAtTime(s, IntRat(in[i])), in[i], s.valuetypid)]

\* C12: tsequence_at_timestampset returns one instant for each timestamp of
\* ts contained in the period of s; the sequences returned by
\* tsequence_minus_timestampset1 cover exactly the period of s minus the
\* timestamps of ts, and are the sequences that successive calls of
\* tsequence_minus_timestamp1, one for each timestamp, return.
C12_MinusTimestampSet ==
  call.op = "tsequence_minus_timestampset1" =>
    /\ err = "none"
    /\ res[1] = InstantsAt(seq, call.args.ts)
    /\ \A x \in HalfTimes :
         Covered(res[2], x)
           <=> (/\ InPeriodAt(seq.period, x)
                /\ \A i \in 1..Len(call.args.ts) : x # IntRat(call.args.ts[i]))
    /\ res[2] = MinusTimestamps(<<seq>>, call.args.ts)

(***************************************************************************)
(* C13: restriction to a period, to a period set and to their complements  *)
(***************************************************************************)
\* the period p1 ends before the period p2 starts
PeriodBefore(p1, p2) ==
  \/ p1.upper < p2.lower
  \/ (p1.upper = p2.lower /\ ~(p1.upper_inc /\ p2.lower_inc))

\* the sequences are ordered and pairwise disjoint in time
OrderedDisjoint(sequences) ==
  \A i \in 1..(Len(sequences) - 1) :
    PeriodBefore(sequences[i].period, sequences[i + 1].period)

\* the time x belongs to a period of the period set ps
InPeriodSetAt(ps, x) == \E i \in 1..Len(ps) : InPeriodAt(ps[i], x)

\* C13: tsequence_at_period returns a sequence whose period is the
\* intersection of the period of s and p, nothing when they do not overlap;
\* tsequence_minus_period1 returns at most two sequences that cover exactly
\* the period of s minus p; tsequence_at_periodset and
\* tsequence_minus_periodset return ordered, pairwise disjoint sequences that
\* cover exactly the period of s inside ps and outside ps.
C13_PeriodPartition ==
  /\ call.op = "tsequence_minus_period1" =>
       /\ err = "none"
       /\ IF PeriodsOverlap(seq.period, call.args.p)
          THEN /\ Len(res[1]) = 1
               /\ res[1][1].period
                    = PeriodsIntersection(seq.period, call.args.p)
          ELSE res[1] = <<>>
       /\ res[2].count = Len(res[2].sequences)
       /\ res[2].count <= 2
       /\ \A x \in HalfTimes :
            Covered(res[2].sequences, x)
              <=> (InPeriodAt(seq.period, x) /\ ~InPeriodAt(call.args.p, x))
  /\ call.op = "tsequence_minus_periodset" =>
       /\ err = "none"
       /\ OrderedDisjoint(res[1])
       /\ OrderedDisjoint(res[2])
       /\ \A x \in HalfTimes :
            /\ Covered(res[1], x)
                 <=> (InPeriodAt(seq.period, x)
                      /\ InPeriodSetAt(call.args.ps, x))
            /\ Covered(res[2], x)
                 <=> (InPeriodAt(seq.period, x)
                      /\ ~InPeriodSetAt(call.args.ps, x))

(***************************************************************************)
(* C14: restriction to a range of base values, as a set of times           *)
(***************************************************************************)
\* the times that tell apart two sets of times made of timestamps, of the
\* times at which s crosses a bound of the range, and of intervals between
\* them
RangeProbeTimes(s, range) ==
  ProbeTimes(s, range.lower) \cup CrossingTimes(s, range.upper)

\* C14: the sequences returned by the at-form of tnumberseq_restrict_range1
\* cover exactly the times of the period of s at which the value of s lies in
\* the range, and every returned sequence takes at each of its times the
\* value s takes there.
C14_AtRangeExact ==
  call.op = "tnumberseq_restrict_range1" =>
    /\ err = "none"
    /\ \A x \in RangeProbeTimes(seq, call.args.range) :
         /\ Covered(res[1], x)
              <=> (InPeriodAt(seq.period, x)
                   /\ range_contains_elem_internal(call.args.range,
                                                   ValueAtTime(seq, x)))
         /\ \A i \in 1..Len(res[1]) :
              (InPeriodAt(res[1][i].period, x) /\ InPeriodAt(seq.period, x))
                => ValueAtTime(res[1][i], x) = ValueAtTime(seq, x)

(***************************************************************************)
(* C15: restriction to an array of ranges of base values                   *)
(***************************************************************************)
\* the results of the at-form of tnumberseq_restrict_range1 on each range
EachRange(s, normranges) ==
  [j \in 1..Len(normranges) |-> RestrictRange1At(s, normranges[j])]

\* the times that tell apart two sets of times made of timestamps, of the
\* times at which s crosses a bound of a range, and of intervals between them
RangesProbeTimes(s, normranges) ==
  UNION {RangeProbeTimes(s, normranges[j]) : j \in 1..Len(normranges)}

\* the sequences are ordered by time
SortedByTime(sequences) ==
  \A i \in 1..(Len(sequences) - 1) :
    period_cmp_internal(sequences[i].period, sequences[i + 1].period) <= 0

\* C15: when the at-form of tnumberseq_restrict_range1 returns for each range
\* of a normalized array, the at-form of tnumberseq_restrict_ranges1 returns
\* sequences that cover exactly the times covered by the sequences returned
\* for some range, the last instant of a step sequence with inclusive upper
\* bound included, and that are sorted by time.
C15_AtRangesUnion ==
  (call.op = "tnumberseq_restrict_ranges1"
     /\ \A j \in 1..Len(call.args.ranges) :
          EachRange(seq, call.args.ranges)[j].err = "none") =>
    /\ err = "none"
    /\ SortedByTime(res[1])
    /\ \A x \in RangesProbeTimes(seq, call.args.ranges) :
         Covered(res[1], x)
           <=> \E j \in 1..Len(call.args.ranges) :
                 Covered(EachRange(seq, call.args.ranges)[j].val, x)

(***************************************************************************)
(* C16: the search of the segment of a timestamp                           *)
(***************************************************************************)
\* the index a scan of the segments from the first one returns
LinearScan(s, t) ==
  IF t = s.instants[1].t THEN (IF s.period.lower_inc THEN 0 ELSE -1)
  ELSE IF t = s.instants[s.count].t
  THEN (IF s.period.upper_inc THEN s.count - 2 ELSE -1)
  ELSE IF \E n \in 0..(s.count - 2) :
            s.instants[n + 1].t <= t /\ t < s.instants[n + 2].t
  THEN CHOOSE n \in 0..(s.count - 2) :
         s.instants[n + 1].t <= t /\ t < s.instants[n + 2].t
  ELSE -1

\* C16: on a sequence of two instants or more, tsequence_find_timestamp
\* returns the index a linear scan returns: the segment n with
\* inst[n].t <= t < inst[n + 1].t, the first timestamp being found only with
\* an inclusive lower bound and the last one, in the last segment, only with
\* an inclusive upper bound; it returns -1 exactly when t is not in the
\* period.
C16_FindTimestamp ==
  call.op = "tsequence_find_timestamp" =>
    /\ res[1] = LinearScan(seq, call.args.t)
    /\ res[1] = -1 <=> ~InPeriod(seq.period, call.args.t)

\* a search that visits a second segment at least, and finds the timestamp
\* of an instant inside the sequence
C16_Witness ==
  /\ call.op = "tsequence_find_timestamp"
  /\ seq.count >= 5
  /\ res[1] > 0
  /\ res[1] # (seq.count - 2) \div 2
  /\ seq.instants[res[1] + 1].t = call.args.t

(***************************************************************************)
(* C17: the normalizer of an array of sequences preserves the values       *)
(***************************************************************************)
\* the value that the sequence of the array that covers the time x takes at x
ArrValueAt(sequences, x) ==
  ValueAtTime(sequences[CHOOSE i \in 1..Len(sequences) :
                          InPeriodAt(sequences[i].period, x)], x)

\* the same value: equal for step interpolation, within the tolerance EPSILON
\* of the collinearity rule for linear interpolation
SameValue(linear, v1, v2) ==
  IF linear THEN RLe(RAbs(RSub(v1, v2)), IntRat(EPSILON)) ELSE v1 = v2

\* C17: the sequences returned by tsequencearr_normalize cover exactly the
\* times the sequences of the input array cover, and take at every covered
\* time the value the input array takes there (up to the tolerance of the
\* collinearity rule for linear interpolation); when two sequences are merged
\* and their shared instants dropped, the instant at the shared bound is
\* redundant by the rules of their interpolation.
C17_NormalizeArrPreserves ==
  call.op = "tsequencearr_normalize" =>
    /\ \A x \in HalfTimes :
         /\ Covered(res, x) <=> Covered(<<seq, call.args.seq2>>, x)
         /\ Covered(res, x) /\ Covered(<<seq, call.args.seq2>>, x)
              => SameValue(seq.linear, ArrValueAt(res, x),
                           ArrValueAt(<<seq, call.args.seq2>>, x))
    /\ (Len(res) = 1 /\ res[1].count = seq.count + call.args.seq2.count - 2)
         => RedundantByRules(seq.linear, seq.instants[seq.count - 1],
                             seq.instants[seq.count], call.args.seq2.instants[2])

(***************************************************************************)
(* C18: tsequence_append_tinstant and tsequence_make                       *)
(***************************************************************************)
\* the sequence tsequence_make builds from the instants of s followed by
\* inst, with the lower bound of s, an inclusive upper bound and
\* normalization
MadeWith(s, inst) ==
  tsequence_make(Append(s.instants, inst), s.period.lower_inc, TRUE, s.linear,
                 TRUE)

\* C18: on a normalized sequence and an instant after its last instant,
\* tsequence_append_tinstant returns a sequence with the instants, the
\* interpolation and the lower bound of the sequence tsequence_make builds
\* from the instants of seq followed by inst; inst replaces the last instant
\* of seq exactly when the last two instants of seq and inst form a redundant
\* triple.  On an instant that is not after the last instant of seq it raises
\* an error and returns no sequence.
C18_AppendAsMake ==
  call.op = "tsequence_append_tinstant" =>
    IF seq.instants[seq.count].t < call.args.inst.t
    THEN /\ err = "none"
         /\ MadeWith(seq, call.args.inst).err = "none"
         /\ res[1].instants = MadeWith(seq, call.args.inst).val.instants
         /\ res[1].count = MadeWith(seq, call.args.inst).val.count
         /\ res[1].linear = MadeWith(seq, call.args.inst).val.linear
         /\ res[1].period.lower = MadeWith(seq, call.args.inst).val.period.lower
         /\ res[1].period.lower_inc
              = MadeWith(seq, call.args.inst).val.period.lower_inc
         /\ res[1].count = seq.count
              <=> (seq.count > 1
                   /\ RedundantByRules(seq.linear, seq.instants[seq.count - 1],
                                       seq.instants[seq.count], call.args.inst))
    ELSE err # "none" /\ res[1] = NullSeq

\* an instant has replaced the last instant of a sequence of two instants
\* with different values
C18_Witness ==
  /\ call.op = "tsequence_append_tinstant"
  /\ err = "none"
  /\ seq.count = 2
  /\ res[1].count = 2
  /\ seq.instants[1].value # seq.instants[2].value
  /\ res[1].instants[2] = call.args.inst

(***************************************************************************)
(* C19: the bounding box of a joined or appended sequence                  *)
(***************************************************************************)
\* the box of s is the box tsequence_make computes from the instants of s,
\* and its time bounds are the bounds of the period of s
BoxFresh(s) ==
  /\ s.bbox = tsequence_make_bbox(s.instants, s.count)
  /\ s.bbox.tmin = s.period.lower
  /\ s.bbox.tmax = s.period.upper

\* C19: the box stored in every sequence returned by tsequence_join, as
\* called by tsequencearr_normalize, and by tsequence_append_tinstant is the
\* box computed from scratch over the instants of that sequence.
C19_BoxNeverStale ==
  /\ call.op = "tsequencearr_normalize"
       => \A i \in 1..Len(res) : BoxFresh(res[i])
  /\ (call.op = "tsequence_append_tinstant" /\ err = "none")
       => BoxFresh(res[1])

(***************************************************************************)
(* C20: the inputs of an operation after the call                          *)
(***************************************************************************)
\* C20: a call of tsequence_shift, tintseq_to_tfloatseq, tfloatseq_to_tintseq,
\* tsequence_join (from tsequencearr_normalize), tsequence_append_tinstant,
\* tsequence_merge_array or tsequence_at_value leaves the input sequence
\* and the other inputs of the caller as they were, the array of sequences
\* given to tsequence_merge_array included.
C20_InputsUnchanged ==
  [][seq' = seq /\ call'.args = call.args]_vars

(***************************************************************************)
(* C21: tsequence_cmp is a total order consistent with tsequence_eq        *)
(***************************************************************************)
\* the comparisons of tsequence_cmp before the flags all return equal
CmpEqualBeforeFlags(a, b) ==
  /\ period_cmp_internal(a.period, b.period) = 0
  /\ temporal_bbox_cmp(a.bbox, b.bbox) = 0
  /\ CmpInstantsLoop(a, b, 0, Min(a.count, b.count)) = 0

\* the third sequences of the chains a <= b <= c: those that span the time of
\* b, so that the bounds, the box, the instants or the flags order b and c
CmpSpanning ==
  [lower \in Times |-> [upper \in Times |->
     {c \in CmpSeqs : c.period.lower = lower /\ c.period.upper = upper}]]

CmpThird(b) == CmpSpanning[b.period.lower][b.period.upper]

\* C21: tsequence_cmp(a, b) is 0 exactly when tsequence_eq(a, b);
\* tsequence_cmp(b, a) has the opposite sign; tsequence_cmp is transitive;
\* and two sequences that the period, box and instant comparisons find equal
\* have the same count
C21_CmpTotalOrder ==
  call.op = "tsequence_cmp" =>
    /\ (res[1] = 0) <=> tsequence_eq(seq, call.args.seq2)
    /\ tsequence_cmp(call.args.seq2, seq) = -res[1]
    /\ res[1] <= 0 =>
         \A c \in CmpThird(call.args.seq2) :
           tsequence_cmp(call.args.seq2, c) <= 0 => tsequence_cmp(seq, c) <= 0
    /\ CmpEqualBeforeFlags(seq, call.args.seq2)
         => seq.count = call.args.seq2.count

\* two sequences with the same instants and bounds that differ in the
\* interpolation alone: the flags decide
C21_Witness ==
  /\ call.op = "tsequence_cmp"
  /\ seq.count = 3
  /\ seq.instants = call.args.seq2.instants
  /\ seq.period = call.args.seq2.period
  /\ ~seq.linear /\ call.args.seq2.linear
  /\ res[1] = -1

(***************************************************************************)
(* C22: the binary representation read back                                *)
(***************************************************************************)
\* C22: tsequence_read on the bytes written by tsequence_write(s) returns a
\* sequence with the count, the instants, the bound inclusivity and the
\* interpolation of s
C22_WireRoundTrip ==
  call.op = "tsequence_read" =>
    /\ err = "none"
    /\ res[1].count = seq.count
    /\ res[1].instants = seq.instants
    /\ res[1].period.lower_inc = seq.period.lower_inc
    /\ res[1].period.upper_inc = seq.period.upper_inc
    /\ res[1].linear = seq.linear

(***************************************************************************)
(* C23: the errors of tsequence_merge_array                                *)
(***************************************************************************)
FirstInstant(s) == s.instants[1]
LastInstant(s) == s.instants[s.count]

\* a sequence of the sorted array ends after the start of the next one
MergeOverlap(ss) ==
  \E i \in 1..(Len(ss) - 1) : LastInstant(ss[i]).t > FirstInstant(ss[i + 1]).t

\* two consecutive sequences of the sorted array meet at a timestamp that is
\* inclusive on both sides, with different values
MergeClash(ss) ==
  \E i \in 1..(Len(ss) - 1) :
    /\ LastInstant(ss[i]).t = FirstInstant(ss[i + 1]).t
    /\ ss[i].period.upper_inc /\ ss[i + 1].period.lower_inc
    /\ LastInstant(ss[i]).value # FirstInstant(ss[i + 1]).value

SameInterpolation(ss) == \A i \in 1..Len(ss) : ss[i].linear = ss[1].linear

\* C23: tsequence_merge_array reports an error and returns no value when two
\* consecutive sequences of the sorted array overlap in time or meet at a
\* timestamp inclusive on both sides with different values, and reports no
\* error for the other arrays of sequences of one interpolation
C23_MergeErrors ==
  call.op = "tsequence_merge_array" =>
    /\ (MergeOverlap(call.args.sequences) \/ MergeClash(call.args.sequences))
         => (err # "none" /\ res = <<>>)
    /\ (/\ SameInterpolation(call.args.sequences)
        /\ ~MergeOverlap(call.args.sequences)
        /\ ~MergeClash(call.args.sequences))
         => err = "none"

(***************************************************************************)
(* C24: the values of the result of tsequence_merge_array                  *)
(***************************************************************************)
\* the array passes the checks of the first loop of tsequence_merge_array
MergePassesChecks(ss) ==
  SameInterpolation(ss) /\ ~MergeOverlap(ss) /\ ~MergeClash(ss)

\* C24: for every array of sequences that passes the checks of
\* tsequence_merge_array, whatever the inclusivity of the bounds, every
\* resulting sequence is made from instants collected from the input
\* sequences, with no read past the end of the array or of what was
\* collected, and the result covers exactly the times the inputs cover and
\* takes at every covered time the value of the input that covers it
C24_MergePreserves ==
  (call.op = "tsequence_merge_array" /\ MergePassesChecks(call.args.sequences)) =>
    /\ err = "none"
    /\ \A x \in HalfTimes :
         /\ Covered(res, x) <=> Covered(call.args.sequences, x)
         /\ (Covered(res, x) /\ Covered(call.args.sequences, x))
              => SameValue(call.args.sequences[1].linear, ArrValueAt(res, x),
                           ArrValueAt(call.args.sequences, x))

(***************************************************************************)
(* C25: the outputs of the synchronization are valid and keep the values   *)
(***************************************************************************)
\* every instant of sync at a timestamp of its period carries the value that
\* s takes at that timestamp
SyncFaithful(sync, s) ==
  \A i \in 1..sync.count :
    InPeriod(sync.period, sync.instants[i].t)
      => sync.instants[i].value = ValueAtTime(s, IntRat(sync.instants[i].t))

\* C25: for two sequences whose periods overlap, with or without crossings,
\* synchronize_tsequence_tsequence raises no error of tsequence_make, its
\* outputs have increasing timestamps, an output with step interpolation and
\* exclusive upper bound ends with two equal values, and each output carries
\* at every timestamp of the common period the value of its own input
C25_SyncValid ==
  (/\ call.op = "synchronize_tsequence_tsequence"
   /\ PeriodsOverlap(seq.period, call.args.seq2.period)) =>
    /\ err = "none"
    /\ Len(res) = 2
    /\ \A k \in 1..2 :
         /\ \A i \in 1..(res[k].count - 1) :
              res[k].instants[i].t < res[k].instants[i + 1].t
         /\ (~res[k].linear /\ ~res[k].period.upper_inc /\ res[k].count > 1)
              => res[k].instants[res[k].count].value
                   = res[k].instants[res[k].count - 1].value
    /\ SyncFaithful(res[1], seq)
    /\ SyncFaithful(res[2], call.args.seq2)

(***************************************************************************)
(* C26: the values and the normal form of the pieces of a restriction in   *)
(* time                                                                     *)
(***************************************************************************)
\* the sequences returned by the restriction called last
TimePieces ==
  CASE call.op \in {"tsequence_at_period", "tsequence_at_periodset"} -> res[1]
    [] call.op \in {"tsequence_minus_timestamp1", "tsequence_minus_timestampset1",
                    "tsequence_minus_periodset"} -> res[2]
    [] call.op = "tsequence_minus_period1" -> res[2].sequences
    [] OTHER -> <<>>

\* the times of the sequences of TimeSeqs and the times halfway between them
TimeHalfTimes ==
  {IntRat(t) : t \in TimeTimes} \cup {Rat(2 * t + 1, 2) : t \in 0..(TimeMaxT - 1)}

\* the piece takes at every time of its period the value of s
SameValues(piece, s) ==
  \A x \in TimeHalfTimes :
    InPeriodAt(piece.period, x)
      => (InPeriodAt(s.period, x) /\ ValueAtTime(piece, x) = ValueAtTime(s, x))

\* C26: every sequence returned by tsequence_at_period,
\* tsequence_at_periodset, tsequence_minus_timestamp1,
\* tsequence_minus_timestampset1, tsequence_minus_period1 and
\* tsequence_minus_periodset on a normalized sequence s takes at every time of
\* its period the value of s, and is normalized
C26_TimeRestrictKeepsValues ==
  \A i \in 1..Len(TimePieces) :
    /\ SameValues(TimePieces[i], seq)
    /\ Normalized(TimePieces[i])


(***************************************************************************)
(* C27: always less than a base value                                      *)
(***************************************************************************)
\* the value of s is strictly less than v at every time of its period: at
\* every timestamp and halfway time of the period, and, for linear
\* interpolation, no instant is above v (a segment that stays below v on an
\* open end may reach v only there)
AlwaysLess(s, v) ==
  /\ \A x \in HalfTimes : InPeriodAt(s.period, x) => RLt(ValueAtTime(s, x), v)
  /\ s.linear => \A i \in 1..s.count : RLe(s.instants[i].value, v)

\* C27: tsequence_always_lt(seq, v) returns true if and only if the value of
\* seq is strictly less than v at every time of its period.
C27_AlwaysLtExact ==
  call.op = "tsequence_always_lt"
    => (res[1] <=> AlwaysLess(seq, call.args.value))


(***************************************************************************)
(* C28: range of values of a linear float sequence                         *)
(***************************************************************************)
\* the value v is taken by s at a time of its period: at a timestamp or at
\* a halfway time (an extreme value of a linear sequence is taken at an
\* instant or all along a constant segment)
AttainedInPeriod(s, v) ==
  \E x \in HalfTimes : InPeriodAt(s.period, x) /\ ValueAtTime(s, x) = v

\* C28: the bounds of the range returned by tfloatseq_range are the minimum
\* and the maximum value of the instants of seq, and each bound is inclusive
\* if and only if that value is taken at a time that belongs to the period
\* of seq.
C28_RangeExact ==
  call.op = "tfloatseq_range"
    => /\ res[1].lower = MinValue(seq.instants, seq.count)
       /\ res[1].upper = MaxValue(seq.instants, seq.count)
       /\ res[1].lower_inc <=> AttainedInPeriod(seq, res[1].lower)
       /\ res[1].upper_inc <=> AttainedInPeriod(seq, res[1].upper)


(***************************************************************************)
(* C29: from stepwise to linear interpolation                              *)
(***************************************************************************)
\* C29: for every step sequence seq, tstepseq_to_linear1 returns without
\* error at most seq.count sequences with linear interpolation, each valid,
\* ordered in time and pairwise disjoint, that cover exactly the period of
\* seq and take at every time of their periods the value of seq.
C29_StepToLinearSameFunction ==
  call.op = "tstepseq_to_linear"
    => /\ err = "none"
       /\ Len(res) >= 1
       /\ Len(res) <= seq.count
       /\ \A i \in 1..Len(res) : res[i].linear /\ StructuralInvariants(res[i])
       /\ \A i \in 1..(Len(res) - 1) :
            /\ res[i].period.upper <= res[i + 1].period.lower
            /\ ~PeriodsOverlap(res[i].period, res[i + 1].period)
       /\ \A x \in HalfTimes :
            /\ InPeriodAt(seq.period, x) <=> Covered(res, x)
            /\ \A i \in 1..Len(res) :
                 InPeriodAt(res[i].period, x)
                   => ValueAtTime(res[i], x) = ValueAtTime(seq, x)

\* a sequence of three instants with inclusive upper bound whose last value
\* differs: two constant pieces and the closing instantaneous one
C29_Witness ==
  /\ call.op = "tstepseq_to_linear"
  /\ seq.count = 3
  /\ seq.period.upper_inc
  /\ seq.instants[3].value # seq.instants[2].value
  /\ seq.instants[2].value # seq.instants[1].value
  /\ Len(res) = 3
  /\ res[3].count = 1


(***************************************************************************)
(* C30: the regions of the packed layout                                   *)
(***************************************************************************)
\* the instants follow each other by their padded sizes, the bounding box
\* follows the last instant, the trajectory follows the padded bounding box,
\* and every region ends inside the allocation
LayoutDisjoint(lay) ==
  /\ lay.offsets[0] = 0
  /\ \A i \in 1..(lay.count - 1) :
       lay.offsets[i] = lay.offsets[i - 1] + double_pad(lay.sizes[i])
  /\ \A i \in 0..(lay.count - 1) :
       lay.pdata + lay.offsets[i] + lay.sizes[i + 1] <= lay.varsize
  /\ lay.bboxsize # 0
       => /\ lay.offsets[lay.count]
               = lay.offsets[lay.count - 1] + double_pad(lay.sizes[lay.count])
          /\ lay.pdata + lay.offsets[lay.count] + lay.bboxsize <= lay.varsize
  /\ lay.hastraj
       => /\ lay.offsets[lay.count + 1]
               >= lay.offsets[lay.count] + double_pad(lay.bboxsize)
          /\ lay.pdata + lay.offsets[lay.count + 1] + lay.trajsize <= lay.varsize

\* C30: in every sequence built by tsequence_make, tsequence_join and
\* tsequence_append_tinstant the offsets of the instants increase by the
\* padded size of the preceding instant, the offset of the bounding box is
\* the end of the last instant, the offset of the trajectory is at least the
\* offset of the bounding box plus its padded size, and every region lies
\* inside the allocation.
C30_LayoutRegionsDisjoint ==
  call.op \in {"tsequence_make", "tsequence_join", "tsequence_append_tinstant"}
    => LayoutDisjoint(res[1])

====
